---- MODULE Spec2Model ----
(***************************************************************************)
(* A model of the browser autofill service: the job orchestrator           *)
(* (FormFillingWorker.processJob), the browser session manager             *)
(* (BrowserManager), the profile store (ProfileManager), the specialized   *)
(* checkout handler (CartPandaCheckout) and the task queue (QueueManager). *)
(*                                                                         *)
(* The browser, the pages it loads, the file system and the queue broker   *)
(* are the environment: every call into them returns one of the outcomes   *)
(* the call can have (it resolves, or it rejects), chosen with \E.         *)
(*                                                                         *)
(* Specifications                                                          *)
(*   Spec       one worker slot running processJob on jobs whose data is   *)
(*              drawn from JobInputs (any sessionId, with or without the   *)
(*              checkout marker in the URL), one job after the other.      *)
(*   FairSpec   Spec, with every awaited call of processJob settling (weak *)
(*              fairness of the steps of the job).                         *)
(*   SpecCheckout  the methods of the checkout handler (fillCheckoutForm,  *)
(*              submitCheckout, verifyCheckoutSuccess) called on a page.   *)
(*   FairCheckout  SpecCheckout, with the polling loop of                  *)
(*              verifyCheckoutSuccess resumed by the event loop (weak      *)
(*              fairness).                                                 *)
(*   SpecQueue  addTask, the broker and Concurrency worker slots: jobs     *)
(*              are exactly those addTask has enqueued.                    *)
(*   SpecShutdown  the shutdown handler racing the jobs of the worker      *)
(*              slots.                                                     *)
(*   SpecTasks  addTask called by itself while the clock advances.          *)
(*   SpecFields the functions of the form logic (getValueForField,         *)
(*              inferFieldPurpose, verifySubmission, fillForm), each       *)
(*              called once with arguments drawn from bounded sets.        *)
(*   SpecProxy  launchBrowser and closeBrowser called for two sessions     *)
(*              under every proxy configuration.                           *)
(*   SpecProfiles  the functions of the profile store and the cleanup      *)
(*              route, called in any order while the days pass.            *)
(*   SpecApi    one request through the middleware chain of the            *)
(*              authenticated API server.                                  *)
(***************************************************************************)
EXTENDS Integers, Sequences, FiniteSets, TLC

-----------------------------------------------------------------------------
(* Bounds of the model *)

\* Number of jobs the single slot of Spec runs one after the other.
MaxJobs == 1
\* Number of calls made under SpecCheckout and under SpecTasks.
MaxCalls == 2
\* Worker slots (config.worker.concurrency) under SpecQueue.
Concurrency == 2
\* Largest page-read latency of one verification poll, in poll intervals.
MaxLatency == 1
\* Largest value of the millisecond clock read by Date.now() under SpecQueue.
MaxClock == 1
\* Tasks accepted by the broker under SpecQueue.
MaxTasks == 2
\* Shutdown signals the process receives under SpecShutdown.
MaxSignals == 2
\* Entries of the formData a field function is called with under SpecFields.
MaxEntries == 2

(* Program constants *)

\* verifyCheckoutSuccess: const maxWaitTime = 90000
MaxWaitTime == 90000
\* verifyCheckoutSuccess: await sleep(3000)
PollInterval == 3000
\* config.retry.maxRetries, the attempts option of the queue
MaxRetries == 3
\* config.retry.retryDelay, the delay of the exponential backoff
RetryDelay == 5000

-----------------------------------------------------------------------------
(* Values *)

\* The JavaScript value undefined (a key missing from job.data or taskData).
Undefined == "undefined"
\* The JavaScript value null.
Null == "null"
\* No handle: Map.get of a missing key, or an unassigned let-variable.
NoHandle == 0

SessionIds == {"s1", "s2"}
Accounts == {"acct1"}

\* if (sessionId) / if (!accountId): truthiness of a string-or-undefined value.
Truthy(v) == v # Undefined /\ v # ""

\* The name of the directory takeScreenshot creates under the profiles root.
ScreenshotsDir == "screenshots"

\* formData, as the set of checkout keys that carry a non-empty value.
FormDatas == { {}, {"email", "cardNumber"} }

\* job.data as processJob destructures it.  cartpandaUrl stands for
\* targetUrl.includes('cartpanda'), takeScreenshots for options.takeScreenshots.
JobData(acct, sid, marker, shots, fd) ==
    [accountId |-> acct, sessionId |-> sid, cartpandaUrl |-> marker,
     takeScreenshots |-> shots, formData |-> fd]

NoJob == JobData(Undefined, Undefined, FALSE, FALSE, {})

\* The jobs Spec hands to processJob.
JobInputs ==
    { JobData("acct1", sid, marker, shots, fd) :
        sid \in SessionIds \cup {Undefined}, marker \in BOOLEAN,
        shots \in BOOLEAN, fd \in FormDatas }

-----------------------------------------------------------------------------
(* Map, as the browser manager uses it: a function on the keys present *)

MapGet(m, k) == IF k \in DOMAIN m THEN m[k] ELSE NoHandle
MapSet(m, k, v) == [x \in DOMAIN m \cup {k} |-> IF x = k THEN v ELSE m[x]]
MapDelete(m, k) == [x \in DOMAIN m \ {k} |-> m[x]]
EmptyMap == [x \in {} |-> NoHandle]

-----------------------------------------------------------------------------
(* State *)

VARIABLES
    world,   \* file system, browser registry and browser processes
    exec,    \* exec[w]: the execution of processJob in worker slot w
    jobs,    \* jobs processed so far by the slot of Spec
    queue,   \* the broker's jobs (SpecQueue)
    clock,   \* Date.now() (SpecQueue)
    proc,    \* the worker process: the state of FormFillingWorker.shutdown
    call     \* one call of a function of FormLogic (SpecFields)

vars == <<world, exec, jobs, queue, clock, proc, call>>

\* No call: the specifications of the worker make none.
NoCall == [fn |-> "none", args |-> <<>>, returned |-> FALSE, result |-> <<>>]

\* isShuttingDown: the flag of FormFillingWorker; pc: where shutdown() is
\* ("running": not called); pending: the keys closeAll has still to close;
\* exitCode: the argument of process.exit (-1: the process runs); signals:
\* SIGTERM / SIGINT received.
InitProc ==
    [isShuttingDown |-> FALSE, pc |-> "running", pending |-> {},
     exitCode |-> -1, signals |-> 0]

\* profilesDir: names of the directories under the profiles root;
\* browsers, contexts: the two registry maps of BrowserManager;
\* procs, ctxs: handles of the browser processes and contexts that are open
\* (a context carries the handle of its browser).
InitWorld ==
    [profilesDir |-> {}, browsers |-> EmptyMap, contexts |-> EmptyMap,
     procs |-> {}, ctxs |-> {}]

\* The handle of a new browser process: one that no open process or context
\* carries.
FreshHandle(w) ==
    CHOOSE h \in 1..(Cardinality(w.procs \cup w.ctxs) + 1) :
        /\ h \notin w.procs \cup w.ctxs
        /\ \A g \in 1..(h - 1) : g \in w.procs \cup w.ctxs

-----------------------------------------------------------------------------
(* ProfileManager *)

\* An id with a path separator: path.join(profilesDir, 's1/x') is the
\* directory x inside the directory s1.
NestedId == "s1/x"

\* The id for which path.join(profilesDir, id) is the profiles root itself.
DotId == "."

\* path.join(profilesDir, id), as the names from the profiles root down.
pathJoin(id) ==
    IF id = NestedId THEN <<"s1", "x">>
    ELSE IF id = DotId THEN <<>>
    ELSE <<id>>

\* The directory a directory lies in, Null for one directly under the root.
ParentDir(id) == IF id = NestedId THEN "s1" ELSE Null

\* fs.mkdirSync(path, {recursive: true}): the directory and the missing ones
\* above it.
mkdirRecursive(id) ==
    IF id = DotId THEN {}
    ELSE IF ParentDir(id) = Null THEN {id}
    ELSE {id, ParentDir(id)}

\* fs.rmSync(path, {recursive: true}): the directory with what lies in it.
rmRecursive(dirs, id) ==
    IF id = DotId THEN dirs
    ELSE {id} \cup { d \in dirs : ParentDir(d) = id }

\* The profiles root has been removed and not been created again (a world
\* without the field rootRemoved is one in which the root is never removed).
RootRemoved(w) == "rootRemoved" \in DOMAIN w /\ w.rootRemoved

\* The world with the root there or removed.
WithRoot(w, removed) ==
    IF "rootRemoved" \in DOMAIN w THEN [w EXCEPT !.rootRemoved = removed] ELSE w

\* fs.existsSync(path.join(profilesDir, id))
pathExists(w, id) ==
    IF id = DotId THEN ~RootRemoved(w) ELSE id \in w.profilesDir

\* getProfilePath: mkdir -p of the profile directory (path.join throws a
\* TypeError for an undefined id before anything is created).
getProfilePath(w, accountId) ==
    IF accountId = Undefined
    THEN [world |-> w, threw |-> "TypeError"]
    ELSE [world |-> WithRoot([w EXCEPT !.profilesDir =
                                         @ \cup mkdirRecursive(accountId)],
                             FALSE),
          threw |-> "none"]

\* deleteProfile without the existsSync test and without force: rmSync throws
\* for a directory that does not exist.
deleteProfileUnguarded(w, accountId, rmOk) ==
    IF accountId = Undefined
    THEN [world |-> w, threw |-> "TypeError"]
    ELSE IF pathExists(w, accountId) /\ rmOk
         THEN [world |-> WithRoot([w EXCEPT !.profilesDir =
                                              @ \ rmRecursive(@, accountId)],
                                  accountId = DotId),
               threw |-> "none"]
         ELSE [world |-> w, threw |-> "rmSync"]

\* deleteProfile: rm -rf of an existing profile directory; rmOk = FALSE is
\* fs.rmSync throwing (the directory stays).  No-op when the directory is absent.
deleteProfile(w, accountId, rmOk) ==
    IF accountId = Undefined
    THEN [world |-> w, threw |-> "TypeError"]
    ELSE IF pathExists(w, accountId)
         THEN IF rmOk
              THEN [world |-> WithRoot([w EXCEPT !.profilesDir =
                                                   @ \ rmRecursive(@, accountId)],
                                       accountId = DotId),
                    threw |-> "none"]
              ELSE [world |-> w, threw |-> "rmSync"]
         ELSE [world |-> w, threw |-> "none"]

-----------------------------------------------------------------------------
(* BrowserManager *)

LaunchOutcomes == {"ok", "launchFails", "contextFails", "pageFails"}

\* launchBrowser(accountId): profile path, chromium.launch, browser.newContext,
\* stealth injection and context.newPage, then both registry maps are set.
\* Returns the new world, the handle of the launched browser and what it threw.
launchBrowser(w, accountId, outcome) ==
    LET p == getProfilePath(w, accountId)
        h == FreshHandle(w)
        started == [p.world EXCEPT !.procs = @ \cup {h}]
        withCtx == [started EXCEPT !.ctxs = @ \cup {h}]
    IN  IF p.threw # "none"
        THEN [world |-> p.world, handle |-> NoHandle, threw |-> p.threw]
        ELSE CASE outcome = "launchFails" ->
                    [world |-> p.world, handle |-> NoHandle, threw |-> "launch"]
               [] outcome = "contextFails" ->
                    [world |-> started, handle |-> NoHandle, threw |-> "newContext"]
               [] outcome = "pageFails" ->
                    [world |-> withCtx, handle |-> NoHandle, threw |-> "newPage"]
               [] OTHER ->
                    [world |-> [withCtx EXCEPT
                                  !.browsers = MapSet(@, accountId, h),
                                  !.contexts = MapSet(@, accountId, h)],
                     handle |-> h, threw |-> "none"]

ScreenshotOutcomes == {"saved", "mkdirFails"}

\* takeScreenshot: creates the screenshots directory when missing, then
\* page.screenshot; every failure is caught and logged.
takeScreenshot(w, outcome) ==
    IF outcome = "mkdirFails"
    THEN w
    ELSE WithRoot([w EXCEPT !.profilesDir = @ \cup {ScreenshotsDir}], FALSE)

\* closeBrowser(accountId): context.close() and contexts.delete, then
\* browser.close() and browsers.delete, all inside one try whose catch only
\* logs: a rejected close skips everything after it.  ctxOk and brOk are the
\* outcomes of the two close calls.
closeBrowser(w, accountId, ctxOk, brOk) ==
    LET browser == MapGet(w.browsers, accountId)
        context == MapGet(w.contexts, accountId)
        afterCtx ==
            IF context # NoHandle
            THEN [w EXCEPT !.ctxs = @ \ {context},
                           !.contexts = MapDelete(@, accountId)]
            ELSE w
    IN  IF context # NoHandle /\ ~ctxOk
        THEN w
        ELSE IF browser # NoHandle
             THEN IF brOk
                  THEN [afterCtx EXCEPT !.procs = @ \ {browser},
                                        !.ctxs = @ \ {browser},
                                        !.browsers = MapDelete(@, accountId)]
                  ELSE afterCtx
             ELSE afterCtx

\* The session of key sid still has an open browser process or context.
SessionOpen(w, sid) ==
    \/ MapGet(w.browsers, sid) \in w.procs
    \/ MapGet(w.contexts, sid) \in w.ctxs

-----------------------------------------------------------------------------
(* The execution of processJob in one worker slot *)

NoFill == [made |-> FALSE, filled |-> <<>>]
NoVerification == [made |-> FALSE, success |-> FALSE, method |-> "none"]
NoPoll == [succ |-> FALSE, decl |-> FALSE]

IdleExec ==
    [pc |-> "idle",
     job |-> NoJob,
     jobId |-> <<>>,
     browser |-> NoHandle,        \* let browser, context, page
     hasPage |-> FALSE,
     elem |-> FALSE,              \* #cardNumbercartpanda_stripe is on the page
     captcha |-> FALSE,           \* an element matching .g-recaptcha is on the page
     path |-> "none",             \* "special" | "generic"
     typed |-> <<>>,              \* fields typed into on the page, in order
     fieldCalls |-> <<>>,         \* the fillField calls of fillCheckoutForm
     warned |-> {},               \* best-effort clicks whose rejection the
                                  \* step that has just run caught and logged
     fillResults |-> NoFill,
     clicked |-> FALSE,           \* the submit button has been clicked
     verification |-> NoVerification,
     orderNumber |-> Undefined,   \* verification.orderNumber: what
                                  \* extractOrderNumber returned (no such key
                                  \* before it is called)
     elapsed |-> 0,               \* Date.now() - startTime while the polling
                                  \* loop runs (a local of verifyCheckoutSuccess)
     poll |-> NoPoll,             \* what the last poll of the loop read on the
                                  \* page: a success / an error indicator matches
     progress |-> <<>>,           \* values passed to job.updateProgress
     log |-> <<>>,                \* steps run, in order
     error |-> "none",            \* the error in flight
     firstError |-> "none",       \* the error first thrown inside the try
     outcome |-> "none"]          \* "returned" | "thrown"

\* The one slot of Spec, and the slots of SpecQueue.
JobSlots == {1}
QueueSlots == 1..Concurrency

\* The execution in slot w goes on to e; nothing runs once process.exit has
\* been called.
Set(w, e) == proc.pc # "exited" /\ exec' = [exec EXCEPT ![w] = e]

Logged(e, step) == [e EXCEPT !.log = Append(@, step), !.warned = {}]

\* The outcomes to choose among for a call that is made only when `made`.
OutcomesIf(made, outcomes, none) == IF made THEN outcomes ELSE {none}

\* A throw inside the try block of processJob: control goes to the catch.
Throw(e, err) == [e EXCEPT !.pc = "catch", !.error = err, !.firstError = err]

-----------------------------------------------------------------------------
(* processJob: the try block *)

ProgressPcs ==
    {"p10", "p20", "p30", "p40s", "p70s", "p85s", "p40g", "p70g", "p85g",
     "p95", "p100"}

\* The value each job.updateProgress call reports.
ProgressValue(pc) ==
    CASE pc = "p10" -> 10
      [] pc = "p20" -> 20
      [] pc = "p30" -> 30
      [] pc \in {"p40s", "p40g"} -> 40
      [] pc \in {"p70s", "p70g"} -> 70
      [] pc \in {"p85s", "p85g"} -> 85
      [] pc = "p95" -> 95
      [] OTHER -> 100

\* The sequence with the submit click moved in front of the filling.
AfterProgressSubmitFirst(pc) ==
    CASE pc = "p10" -> "launch"
      [] pc = "p20" -> "goto"
      [] pc = "p30" -> "shotInitial"
      [] pc = "p40s" -> "submitCheckout"
      [] pc = "p70s" -> "shotBeforeS"
      [] pc = "p85s" -> "fillCheckout"
      [] pc = "p40g" -> "submitForm"
      [] pc = "p70g" -> "shotBeforeG"
      [] pc = "p85g" -> "fillForm"
      [] pc = "p95" -> "shotAfter"
      [] OTHER -> "deleteOnSuccess"

\* The statement that follows each job.updateProgress call.
AfterProgress(pc) ==
    CASE pc = "p10" -> "launch"
      [] pc = "p20" -> "goto"
      [] pc = "p30" -> "shotInitial"
      [] pc = "p40s" -> "fillCheckout"
      [] pc = "p70s" -> "shotBeforeS"
      [] pc = "p85s" -> "verifyCheckout"
      [] pc = "p40g" -> "fillForm"
      [] pc = "p70g" -> "shotBeforeG"
      [] pc = "p85g" -> "verifySubmission"
      [] pc = "p95" -> "shotAfter"
      [] OTHER -> "deleteOnSuccess"

\* await job.updateProgress(n): a broker call, which resolves or rejects.
UpdateProgress(w) ==
    /\ exec[w].pc \in ProgressPcs
    /\ \E ok \in BOOLEAN :
         Set(w, IF ok
                THEN [exec[w] EXCEPT !.progress = Append(@, ProgressValue(exec[w].pc)),
                                     !.warned = {},
                                     !.pc = AfterProgress(exec[w].pc)]
                ELSE Throw([exec[w] EXCEPT !.warned = {}], "updateProgress"))
    /\ UNCHANGED <<call, proc, world, jobs, queue, clock>>

\* ({ browser, context, page } = await browserManager.launchBrowser(sessionId, ...))
LaunchBrowser(w) ==
    /\ exec[w].pc = "launch"
    /\ \E outcome \in OutcomesIf(exec[w].job.sessionId # Undefined,
                                  LaunchOutcomes, "ok") :
         LET r == launchBrowser(world, exec[w].job.sessionId, outcome)
             e == Logged(exec[w], "launchBrowser")
         IN  /\ world' = r.world
             /\ Set(w, IF r.threw # "none"
                       THEN Throw(e, r.threw)
                       ELSE [e EXCEPT !.browser = r.handle, !.hasPage = TRUE,
                                      !.pc = "p20"])
    /\ UNCHANGED <<call, proc, jobs, queue, clock>>

\* await page.goto(targetUrl, ...): the page that loads has or lacks the
\* checkout element and a reCAPTCHA widget.
Goto(w) ==
    /\ exec[w].pc = "goto"
    /\ \E loaded \in BOOLEAN, elem \in BOOLEAN, captcha \in BOOLEAN :
         LET e == Logged(exec[w], "goto")
         IN  Set(w, IF loaded
                    THEN [e EXCEPT !.elem = elem, !.captcha = captcha, !.pc = "p30"]
                    ELSE Throw(e, "navigation"))
    /\ UNCHANGED <<call, proc, world, jobs, queue, clock>>

ShotPcs == {"shotInitial", "shotBeforeS", "shotBeforeG", "shotAfter"}

AfterShot(pc) ==
    CASE pc = "shotInitial" -> "detect"
      [] pc = "shotBeforeS" -> "submitCheckout"
      [] pc = "shotBeforeG" -> "submitForm"
      [] OTHER -> "p100"

\* if (options.takeScreenshots) await browserManager.takeScreenshot(...)
TakeScreenshot(w) ==
    /\ exec[w].pc \in ShotPcs
    /\ \E outcome \in OutcomesIf(exec[w].job.takeScreenshots,
                                  ScreenshotOutcomes, "saved") :
         world' = IF exec[w].job.takeScreenshots
                  THEN takeScreenshot(world, outcome)
                  ELSE world
    /\ Set(w, [exec[w] EXCEPT !.pc = AfterShot(exec[w].pc)])
    /\ UNCHANGED <<call, proc, jobs, queue, clock>>

\* const isCartPanda = targetUrl.includes('cartpanda') ||
\*   await page.$('#cardNumbercartpanda_stripe').then(() => true).catch(() => false);
\* page.$ resolves (to the element or to null) or rejects; the then-callback
\* ignores what it resolved to.
isCartPanda(marker, elemPresent, queryResolves) == marker \/ queryResolves

DetectType(w) ==
    /\ exec[w].pc = "detect"
    /\ \E queryResolves \in BOOLEAN :
         Set(w, [Logged(exec[w], "detect") EXCEPT
                   !.path = IF isCartPanda(exec[w].job.cartpandaUrl, exec[w].elem,
                                           queryResolves)
                            THEN "special" ELSE "generic",
                   !.pc = IF isCartPanda(exec[w].job.cartpandaUrl, exec[w].elem,
                                         queryResolves)
                          THEN "checkBlocked" ELSE "detectCaptcha"])
    /\ UNCHANGED <<call, proc, world, jobs, queue, clock>>

-----------------------------------------------------------------------------
(* processJob: the specialized path *)

\* checkIfBlocked, the blocked screenshot and the throw.
CheckBlocked(w) ==
    /\ exec[w].pc = "checkBlocked"
    /\ \E blocked \in BOOLEAN :
       \E outcome \in OutcomesIf(blocked /\ exec[w].job.takeScreenshots,
                                  ScreenshotOutcomes, "saved") :
         LET e == Logged(exec[w], "checkIfBlocked")
         IN  /\ world' = IF blocked /\ exec[w].job.takeScreenshots
                         THEN takeScreenshot(world, outcome)
                         ELSE world
             /\ Set(w, IF blocked
                       THEN Throw(e, "blocked")
                       ELSE [e EXCEPT !.pc = "p40s"])
    /\ UNCHANGED <<call, proc, jobs, queue, clock>>

\* module.exports of humanBehavior.js.
HumanBehaviorExports ==
    {"randomDelay", "sleep", "generateMousePath", "humanMouseMove",
     "humanType", "humanScroll", "randomPageInteraction", "generateViewport",
     "generateUserAgent", "generateTimezone", "generateLocale"}

\* const { sleep, typeHumanLike, smoothScrollTo } = require('../utils/humanBehavior'):
\* a name the module does not export is bound to undefined, and calling it
\* throws a TypeError.
IsFunction(name) == name \in HumanBehaviorExports

\* The order in which fillCheckoutForm fills.
CheckoutOrder ==
    <<"email", "fullName", "phone", "cardNumber", "cardholderName",
      "cardExpiry", "cvc">>

\* The formData keys read for each field, in the order of the || chain.
CheckoutKeys(f) ==
    CASE f = "email" -> <<"email">>
      [] f = "fullName" -> <<"fullName", "nome", "name">>
      [] f = "phone" -> <<"phone", "telefone">>
      [] f = "cardNumber" -> <<"cardNumber", "cartao">>
      [] f = "cardholderName" -> <<"cardholderName", "fullName", "nome", "name">>
      [] f = "cardExpiry" -> <<"cardExpiry", "validade">>
      [] OTHER -> <<"cvc", "cvv", "securityCode">>

\* if (formData.a || formData.b): fd is the set of keys whose value is truthy.
Supplied(fd, f) ==
    \E i \in 1..Len(CheckoutKeys(f)) : CheckoutKeys(f)[i] \in fd

\* const v = formData.a || formData.b: the key whose value is used.
CheckoutKey(fd, f) ==
    LET keys == CheckoutKeys(f)
        first == CHOOSE i \in 1..Len(keys) :
                    keys[i] \in fd /\ \A j \in 1..(i - 1) : keys[j] \notin fd
    IN  keys[first]

SuppliedFields(fd) ==
    LET Keep(f) == Supplied(fd, f) IN SelectSeq(CheckoutOrder, Keep)

\* The fields of section 1 (basic information); the others are payment fields.
ContactFields == {"email", "fullName", "phone"}

\* The two best-effort clicks of fillCheckoutForm.
AdvanceClick == ".check-out-left"
BlurClick == ".check-out-row-outr"

\* The steps of fillField, in order.
FillFieldSteps == <<"wait", "click", "clear", "type">>

\* fillField(page, selector, value, fieldName): waitForSelector, click,
\* fill(selector, '') and typeHumanLike, the first three rejecting as the page
\* decides (rejectAt: 0 none, k the k-th); the catch rethrows.  did: the
\* steps completed.
fillField(rejectAt) ==
    IF rejectAt # 0
    THEN [threw |-> "fillField", did |-> SubSeq(FillFieldSteps, 1, rejectAt - 1)]
    ELSE IF ~IsFunction("typeHumanLike")
    THEN [threw |-> "TypeError", did |-> SubSeq(FillFieldSteps, 1, 3)]
    ELSE [threw |-> "none", did |-> FillFieldSteps]

\* What one run of fillCheckoutForm does, given what the page does: blocked
\* (the second block check), failAt (the index among the supplied fields of
\* the field one of whose page calls rejects, 0: none), leftOk and outrOk (the
\* clicks on .check-out-left and .check-out-row-outr resolve).  The first
\* fillField that throws and the first smoothScrollTo that throws end the run
\* (the catch rethrows).  calls: the fillField calls made, in order, each with
\* the formData key whose value it was given and the steps it completed;
\* typed: the fields pushed to results.filled; warned: the clicks whose
\* rejection was caught and logged.
fillCheckoutForm(fd, blocked, failAt, leftOk, outrOk) ==
    LET fields == SuppliedFields(fd)
        Call(i) == fillField(IF i = failAt THEN 1 ELSE 0)
        Stops == {i \in 1..Len(fields) : Call(i).threw # "none"}
        stop == IF Stops = {} THEN 0
                ELSE CHOOSE i \in Stops : \A j \in Stops : i <= j
        failed == IF stop # 0 THEN fields[stop] ELSE "none"
        contact == SelectSeq(fields, LAMBDA f : f \in ContactFields)
        left == IF leftOk THEN {} ELSE {AdvanceClick}
        outr == IF outrOk THEN {} ELSE {BlurClick}
        Calls(n) == [i \in 1..n |->
                       [field |-> fields[i],
                        key |-> CheckoutKey(fd, fields[i]),
                        did |-> Call(i).did]]
        Run(threw, n, warned) ==
            [threw |-> threw,
             calls |-> Calls(n),
             typed |-> SubSeq(fields, 1, IF stop # 0 /\ n = stop THEN n - 1 ELSE n),
             warned |-> warned]
    IN  IF blocked
        THEN Run("blocked", 0, {})
        ELSE IF failed \in ContactFields
        THEN Run(Call(stop).threw, stop, {})
        ELSE IF ~IsFunction("smoothScrollTo")
        THEN Run("TypeError", Len(contact), left)
        ELSE IF failed # "none"
        THEN Run(Call(stop).threw, stop, left)
        ELSE Run("none", Len(fields), left \cup outr)

\* fillCheckoutForm inside processJob: a second block check, then every
\* supplied field in order with the two best-effort clicks.  The outcome of a
\* click the run does not get to is not used.
FillCheckout(w) ==
    /\ exec[w].pc = "fillCheckout"
    /\ LET fields == SuppliedFields(exec[w].job.formData)
           e == Logged(exec[w], "fillCheckoutForm")
       IN  \E blocked \in BOOLEAN, failAt \in 0..Len(fields),
              leftOk \in BOOLEAN, outrOk \in BOOLEAN :
             LET r == fillCheckoutForm(exec[w].job.formData, blocked, failAt,
                                       leftOk, outrOk)
             IN  Set(w, IF r.threw # "none"
                        THEN Throw([e EXCEPT !.typed = r.typed,
                                             !.fieldCalls = r.calls,
                                             !.warned = r.warned], r.threw)
                        ELSE [e EXCEPT !.typed = r.typed,
                                       !.fieldCalls = r.calls,
                                       !.warned = r.warned,
                                       !.fillResults =
                                         [made |-> TRUE, filled |-> r.typed],
                                       !.pc = "p70s"])
    /\ UNCHANGED <<call, proc, world, jobs, queue, clock>>

\* submitCheckout: waitForSelector, click, sleep(10000).
SubmitCheckout(w) ==
    /\ exec[w].pc = "submitCheckout"
    /\ \E found \in BOOLEAN :
         LET e == Logged(exec[w], "submitCheckout")
         IN  Set(w, IF found
                    THEN [e EXCEPT !.clicked = TRUE, !.pc = "p85s"]
                    ELSE Throw(e, "submit"))
    /\ UNCHANGED <<call, proc, world, jobs, queue, clock>>

\* The loop with the budget test made inclusive.
verifyPollInclusive(elapsed, succ, decl) ==
    IF ~(elapsed <= MaxWaitTime) THEN "timeout"
    ELSE IF succ THEN "cartpanda_success_detection"
    ELSE IF decl THEN "cartpanda_error_detection"
    ELSE "continue"

\* The loop with the error indicators tested before the success indicators.
verifyPollErrorFirst(elapsed, succ, decl) ==
    IF ~(elapsed < MaxWaitTime) THEN "timeout"
    ELSE IF decl THEN "cartpanda_error_detection"
    ELSE IF succ THEN "cartpanda_success_detection"
    ELSE "continue"

\* One iteration of the while loop of verifyCheckoutSuccess, entered with
\* Date.now() - startTime = elapsed.  succ: one of the success indicators
\* matches; decl: one of the error indicators matches.
verifyPoll(elapsed, succ, decl) ==
    IF ~(elapsed < MaxWaitTime) THEN "timeout"
    ELSE IF succ THEN "cartpanda_success_detection"
    ELSE IF decl THEN "cartpanda_error_detection"
    ELSE "continue"

\* extractOrderNumber(page): the first capture of the order-number patterns in
\* the page text, null when none matches or the page read rejects.
OrderNumbers == {Null, "A-1001"}

\* const result = {...} of processJob, built from the locals of the run
\* (verification.orderNumber is kept in e.orderNumber).
processJobResult(e) ==
    [success |-> e.verification.success,
     accountId |-> e.job.accountId,
     sessionId |-> e.job.sessionId,
     fillResults |-> e.fillResults,
     verification |-> e.verification,
     duration |-> "duration",
     timestamp |-> "timestamp"]

\* result[key]: undefined when the object has no such key.
resultGet(result, key) ==
    IF key \in DOMAIN result THEN result[key] ELSE Undefined

\* verifyCheckoutSuccess: each poll reads the page (latency) and, when nothing
\* matches, sleeps for the poll interval.  page.url() is a synchronous getter
\* and a rejected page.textContent is caught and read as '', so the catch of
\* the function is not entered.  When the loop condition fails no poll is made.
VerifyCheckout(w) ==
    /\ exec[w].pc = "verifyCheckout"
    /\ \E succ \in BOOLEAN, decl \in BOOLEAN, latency \in 0..MaxLatency :
       \E extracted \in OutcomesIf(verifyPoll(exec[w].elapsed, succ, decl)
                                      = "cartpanda_success_detection",
                                   OrderNumbers, Undefined) :
         LET r == verifyPoll(exec[w].elapsed, succ, decl)
             read == [succ |-> succ, decl |-> decl]
         IN  Set(w, IF r = "continue"
                    THEN [exec[w] EXCEPT
                            !.poll = read,
                            !.elapsed = @ + latency * PollInterval + PollInterval]
                    ELSE [Logged(exec[w], "verifyCheckoutSuccess") EXCEPT
                            !.poll = IF r = "timeout" THEN @ ELSE read,
                            !.elapsed = 0,
                            !.orderNumber = extracted,
                            !.verification =
                               [made |-> TRUE,
                                success |-> (r = "cartpanda_success_detection"),
                                method |-> r],
                            !.pc = "p95"])
    /\ UNCHANGED <<call, proc, world, jobs, queue, clock>>

-----------------------------------------------------------------------------
(* processJob: the generic path *)

\* detectCaptcha, the captcha screenshot and the throw.
DetectCaptcha(w) ==
    /\ exec[w].pc = "detectCaptcha"
    /\ \E counted \in BOOLEAN :
       \E outcome \in OutcomesIf(counted /\ exec[w].captcha
                                    /\ exec[w].job.takeScreenshots,
                                  ScreenshotOutcomes, "saved") :
         LET e == Logged(exec[w], "detectCaptcha")
         IN  /\ world' = IF counted /\ exec[w].captcha /\ exec[w].job.takeScreenshots
                         THEN takeScreenshot(world, outcome)
                         ELSE world
             /\ Set(w, IF ~counted THEN Throw(e, "locator")
                       ELSE IF exec[w].captcha THEN Throw(e, "captcha")
                       ELSE [e EXCEPT !.pc = "p40g"])
    /\ UNCHANGED <<call, proc, jobs, queue, clock>>

\* fillForm: detectFormFields rejects whenever the page has an element to
\* fill (see detectFormFields below) or page.evaluate fails, and fillForm
\* rethrows; otherwise no field was detected and the FillResult is empty.
FillForm(w) ==
    /\ exec[w].pc = "fillForm"
    /\ \E detected \in BOOLEAN :
         LET e == Logged(exec[w], "fillForm")
         IN  Set(w, IF detected
                    THEN [e EXCEPT !.fillResults = [made |-> TRUE, filled |-> <<>>],
                                   !.pc = "p70g"]
                    ELSE Throw(e, "detectFormFields"))
    /\ UNCHANGED <<call, proc, world, jobs, queue, clock>>

\* submitForm: waitForSelector, scroll, mouse move, click.
SubmitForm(w) ==
    /\ exec[w].pc = "submitForm"
    /\ \E found \in BOOLEAN :
         LET e == Logged(exec[w], "submitForm")
         IN  Set(w, IF found
                    THEN [e EXCEPT !.clicked = TRUE, !.pc = "p85g"]
                    ELSE Throw(e, "submit"))
    /\ UNCHANGED <<call, proc, world, jobs, queue, clock>>

GenericMethods == {"url", "message", "element", "keyword", "error", "null"}

\* verifySubmission: the first matching check names the method; it never throws.
VerifySubmission(w) ==
    /\ exec[w].pc = "verifySubmission"
    /\ \E m \in GenericMethods :
         Set(w, [Logged(exec[w], "verifySubmission") EXCEPT
                   !.verification =
                      [made |-> TRUE,
                       success |-> (m \in {"url", "message", "element", "keyword"}),
                       method |-> m],
                   !.pc = "p95"])
    /\ UNCHANGED <<call, proc, world, jobs, queue, clock>>

-----------------------------------------------------------------------------
(* processJob: the end of the try block, the catch and the finally *)

\* profileManager.deleteProfile(sessionId) before return result: it is inside
\* the try, so what it throws goes to the catch.
DeleteOnSuccess(w) ==
    /\ exec[w].pc = "deleteOnSuccess"
    /\ \E rmOk \in OutcomesIf(exec[w].job.sessionId \in world.profilesDir,
                               BOOLEAN, TRUE) :
         LET r == deleteProfile(world, exec[w].job.sessionId, rmOk)
             e == Logged(exec[w], "deleteProfile")
         IN  /\ world' = r.world
             /\ Set(w, IF r.threw # "none"
                       THEN Throw(e, r.threw)
                       ELSE [e EXCEPT !.pc = "finallyClose"])
    /\ UNCHANGED <<call, proc, jobs, queue, clock>>

\* A catch that lets the failure of the error screenshot replace the error.
catchErrorMasked(error, hasPage, outcome) ==
    IF hasPage /\ outcome = "mkdirFails" THEN "screenshot" ELSE error

\* catch (error): the error screenshot when page is set (takeScreenshot has
\* caught its own failure), then throw error.
catchError(error, hasPage, outcome) == error

CatchError(w) ==
    /\ exec[w].pc = "catch"
    /\ \E outcome \in OutcomesIf(exec[w].hasPage, ScreenshotOutcomes, "saved") :
         /\ world' = IF exec[w].hasPage
                     THEN takeScreenshot(world, outcome)
                     ELSE world
         /\ Set(w, [Logged(exec[w], "catch") EXCEPT
                      !.error = catchError(exec[w].error, exec[w].hasPage, outcome),
                      !.pc = "finallyClose"])
    /\ UNCHANGED <<call, proc, jobs, queue, clock>>

\* A finally that goes straight to the profile cleanup.
FinallyCloseSkipped(w) ==
    /\ exec[w].pc = "finallyClose"
    /\ Set(w, [exec[w] EXCEPT !.pc = "finallyDelete"])
    /\ UNCHANGED <<call, proc, world, jobs, queue, clock>>

\* finally: if (sessionId) await browserManager.closeBrowser(sessionId)
FinallyClose(w) ==
    /\ exec[w].pc = "finallyClose"
    /\ \E ctxOk \in OutcomesIf(exec[w].job.sessionId \in DOMAIN world.contexts,
                                BOOLEAN, TRUE),
          brOk \in OutcomesIf(exec[w].job.sessionId \in DOMAIN world.browsers,
                               BOOLEAN, TRUE) :
         world' = IF Truthy(exec[w].job.sessionId)
                  THEN closeBrowser(world, exec[w].job.sessionId, ctxOk, brOk)
                  ELSE world
    /\ Set(w, [(IF Truthy(exec[w].job.sessionId)
                THEN Logged(exec[w], "closeBrowser") ELSE exec[w])
               EXCEPT !.pc = "finallyDelete"])
    /\ UNCHANGED <<call, proc, jobs, queue, clock>>

\* What leaves the finally block: the error in flight; a failure of the
\* guarded deleteProfile is caught and logged.
finallyError(error, cleanupThrew) == error

\* finally: if (sessionId) try { deleteProfile(sessionId) } catch { warn };
\* then the function ends: with the return value, or with the error in flight.
FinallyDelete(w) ==
    /\ exec[w].pc = "finallyDelete"
    /\ \E rmOk \in OutcomesIf(exec[w].job.sessionId \in world.profilesDir,
                               BOOLEAN, TRUE) :
         LET sid == exec[w].job.sessionId
             r == IF Truthy(sid)
                  THEN deleteProfile(world, sid, rmOk)
                  ELSE [world |-> world, threw |-> "none"]
             err == finallyError(exec[w].error, r.threw)
         IN  /\ world' = r.world
             /\ Set(w, [(IF Truthy(sid)
                         THEN Logged(exec[w], "deleteProfile") ELSE exec[w])
                        EXCEPT !.error = err,
                               !.outcome = IF err = "none" THEN "returned"
                                           ELSE "thrown",
                               !.pc = "done"])
    /\ UNCHANGED <<call, proc, jobs, queue, clock>>

-----------------------------------------------------------------------------
(* Spec: one slot, jobs drawn from JobInputs *)

Init ==
    /\ world = InitWorld
    /\ exec = [w \in JobSlots |-> IdleExec]
    /\ jobs = 0
    /\ queue = {}
    /\ clock = 0
    /\ proc = InitProc
    /\ call = NoCall

\* The worker calls processJob(job) when the slot is free.
Receive(w) ==
    /\ proc.pc = "running"
    /\ exec[w].pc \in {"idle", "done"}
    /\ jobs < MaxJobs
    /\ \E job \in JobInputs :
         Set(w, [IdleExec EXCEPT !.job = job, !.pc = "p10"])
    /\ jobs' = jobs + 1
    /\ UNCHANGED <<call, proc, world, queue, clock>>

\* The steps of processJob.  fillCheckoutForm never returns (see fillField and
\* fillCheckoutForm), so submitCheckout and verifyCheckoutSuccess are not
\* reached from processJob; SpecCheckout calls them.
JobStep(w) ==
    \/ UpdateProgress(w)
    \/ LaunchBrowser(w)
    \/ Goto(w)
    \/ TakeScreenshot(w)
    \/ DetectType(w)
    \/ CheckBlocked(w)
    \/ FillCheckout(w)
    \/ DetectCaptcha(w)
    \/ FillForm(w)
    \/ SubmitForm(w)
    \/ VerifySubmission(w)
    \/ DeleteOnSuccess(w)
    \/ CatchError(w)
    \/ FinallyClose(w)
    \/ FinallyDelete(w)

Next == \E w \in JobSlots : Receive(w) \/ JobStep(w)

Spec == Init /\ [][Next]_vars

\* Spec with every awaited call of processJob settling: the browser, the file
\* system and the broker answer each call (it resolves or it rejects), so the
\* event loop resumes the function after every await.
FairSpec == Spec /\ \A w \in JobSlots : WF_vars(JobStep(w))

-----------------------------------------------------------------------------
(* SpecCheckout: the methods of CartPandaCheckout called on an open page *)

\* formData a caller passes to fillCheckoutForm, as the set of keys whose value
\* is truthy: none, the keys of the documentation, the alternate keys, every
\* documented key, and a name with a separate cardholder name.
CheckoutFormDatas ==
    { {},
      {"email", "cardNumber"},
      {"email", "nome", "telefone", "cartao", "validade", "cvv"},
      {"email", "fullName", "phone", "cardNumber", "cardholderName",
       "cardExpiry", "cvc"},
      {"name", "cardholderName", "securityCode"} }

\* The methods of the exported CartPandaCheckout object that drive the page.
CheckoutMethods == {"fillCheckout", "submitCheckout", "verifyCheckout"}

\* Where a called method has ended: fillCheckoutForm returned ("p70s"),
\* submitCheckout returned ("p85s"), verifyCheckoutSuccess returned ("p95"), or
\* the method threw ("catch").
CheckoutEnds == {"p70s", "p85s", "p95", "catch"}

\* A caller calls one of the methods with a page and, for fillCheckoutForm,
\* a formData.
CallCheckout(w) ==
    /\ exec[w].pc \in {"idle"} \cup CheckoutEnds
    /\ jobs < MaxCalls
    /\ \E method \in CheckoutMethods :
       \E fd \in OutcomesIf(method = "fillCheckout", CheckoutFormDatas, {}) :
         Set(w, [IdleExec EXCEPT
                   !.job = JobData("acct1", "s1", TRUE, FALSE, fd),
                   !.hasPage = TRUE,
                   !.path = "special",
                   !.pc = method])
    /\ jobs' = jobs + 1
    /\ UNCHANGED <<call, proc, world, queue, clock>>

NextCheckout ==
    \E w \in JobSlots :
       \/ CallCheckout(w)
       \/ FillCheckout(w)
       \/ SubmitCheckout(w)
       \/ VerifyCheckout(w)

SpecCheckout == Init /\ [][NextCheckout]_vars

\* SpecCheckout with the polling loop of verifyCheckoutSuccess scheduled: the
\* awaited page read and sleep(3000) settle, so the event loop resumes the
\* function.
FairCheckout == SpecCheckout /\ \A w \in JobSlots : WF_vars(VerifyCheckout(w))

-----------------------------------------------------------------------------
(* FormLogic: the field functions (SpecFields) *)

\* Strings are sequences of characters; <<>> is '' (falsy, like a missing
\* attribute).

\* String.prototype.toLowerCase, on the letters the model uses.
LowerChar(c) ==
    CASE c = "A" -> "a"
      [] c = "B" -> "b"
      [] c = "C" -> "c"
      [] c = "D" -> "d"
      [] c = "E" -> "e"
      [] c = "M" -> "m"
      [] c = "N" -> "n"
      [] c = "O" -> "o"
      [] c = "S" -> "s"
      [] c = "T" -> "t"
      [] c = "U" -> "u"
      [] OTHER -> c

toLowerCase(str) == [i \in 1..Len(str) |-> LowerChar(str[i])]

\* String.prototype.includes
includes(str, part) ==
    \E i \in 0..(Len(str) - Len(part)) : SubSeq(str, i + 1, i + Len(part)) = part

\* formData is the sequence of its entries, in the order of Object.entries.
\* formData[key]: the value of the entry, undefined when there is none.
formDataGet(formData, key) ==
    IF \E i \in 1..Len(formData) : formData[i].key = key
    THEN formData[CHOOSE i \in 1..Len(formData) : formData[i].key = key].value
    ELSE Undefined

\* The tiers with the purpose tried before the exact name and id.
getValueForFieldPurposeFirst(field, formData) ==
    IF field.purpose # <<>> /\ formDataGet(formData, field.purpose) # Undefined
    THEN formDataGet(formData, field.purpose)
    ELSE IF field.name # <<>> /\ formDataGet(formData, field.name) # Undefined
    THEN formDataGet(formData, field.name)
    ELSE IF field.id # <<>> /\ formDataGet(formData, field.id) # Undefined
    THEN formDataGet(formData, field.id)
    ELSE LET fieldKey == IF field.name # <<>> THEN field.name ELSE field.id
             Fuzzy(i) == includes(toLowerCase(fieldKey),
                                  toLowerCase(formData[i].key))
         IN  IF \E i \in 1..Len(formData) : Fuzzy(i)
             THEN formData[CHOOSE i \in 1..Len(formData) :
                              Fuzzy(i) /\ \A k \in 1..(i - 1) : ~Fuzzy(k)].value
             ELSE Null

\* getValueForField(field, formData): exact name, exact id, purpose, then the
\* first key that the lower-cased name-or-id includes; null when none.
getValueForField(field, formData) ==
    IF field.name # <<>> /\ formDataGet(formData, field.name) # Undefined
    THEN formDataGet(formData, field.name)
    ELSE IF field.id # <<>> /\ formDataGet(formData, field.id) # Undefined
    THEN formDataGet(formData, field.id)
    ELSE IF field.purpose # <<>> /\ formDataGet(formData, field.purpose) # Undefined
    THEN formDataGet(formData, field.purpose)
    ELSE LET fieldKey == IF field.name # <<>> THEN field.name ELSE field.id
             Fuzzy(i) == includes(toLowerCase(fieldKey),
                                  toLowerCase(formData[i].key))
         IN  IF \E i \in 1..Len(formData) : Fuzzy(i)
             THEN formData[CHOOSE i \in 1..Len(formData) :
                              Fuzzy(i) /\ \A k \in 1..(i - 1) : ~Fuzzy(k)].value
             ELSE Null

\* The names, ids and purposes of the fields and the keys and values of the
\* formData the calls are made with.  formData arrives as JSON, so no entry
\* has the value undefined.
FieldNames == { <<>>, <<"a">>, <<"A">>, <<"a", "b">>, <<"B", "a">>, <<"e">> }
FieldIds == { <<>>, <<"b">>, <<"a", "b">> }
FieldPurposes == { <<>>, <<"e">>, <<"b">> }
FormKeys == { <<"a">>, <<"A">>, <<"b">>, <<"a", "b">>, <<"e">> }
\* A value that is falsy and neither null nor undefined (false, 0, '').
FalsyValue == "false"

FormValues == { "v1", FalsyValue, Null }

Fields == [name : FieldNames, id : FieldIds, purpose : FieldPurposes]

FormDataInputs ==
    { fd \in UNION { [1..n -> [key : FormKeys, value : FormValues]] :
                       n \in 0..MaxEntries } :
        \A i, k \in 1..Len(fd) : i # k => fd[i].key # fd[k].key }

\* A caller is about to call getValueForField(field, formData).
GetValueCalls ==
    { [fn |-> "getValueForField", args |-> <<field, fd>>, returned |-> FALSE,
       result |-> <<>>] : field \in Fields, fd \in FormDataInputs }

\* The call returns.
GetValue ==
    /\ call.fn = "getValueForField"
    /\ ~call.returned
    /\ call' = [call EXCEPT !.returned = TRUE,
                            !.result = <<getValueForField(call.args[1],
                                                          call.args[2])>>]
    /\ UNCHANGED <<world, exec, jobs, queue, clock, proc>>

\* Array.prototype.join(' ') of the strings that are not empty.
JoinWords(strs) ==
    LET RECURSIVE Join(_)
        Join(i) ==
            IF i > Len(strs) THEN <<>>
            ELSE IF strs[i] = <<>> THEN Join(i + 1)
            ELSE LET rest == Join(i + 1)
                 IN  IF rest = <<>> THEN strs[i] ELSE strs[i] \o <<" ">> \o rest
    IN  Join(1)

\* [name, id, placeholder, className, aria-label, autocomplete]
\*   .filter(Boolean).join(' ').toLowerCase()
elementAttrs(element) ==
    toLowerCase(JoinWords(<<element.name, element.id, element.placeholder,
                            element.className, element.ariaLabel,
                            element.autocomplete>>))

\* The rules with the full-name rule tried first.
inferFieldPurposeNameFirst(element) ==
    LET attrs == elementAttrs(element)
    IN  IF includes(attrs, <<"n", "a", "m", "e">>) /\ ~includes(attrs, <<"u", "s", "e", "r">>)
        THEN "fullName"
        ELSE IF includes(attrs, <<"e", "m", "a", "i", "l">>) \/
               element.type = "email"
        THEN "email"
        ELSE IF includes(attrs, <<"f", "i", "r", "s", "t", "n", "a", "m", "e">>) \/
               includes(attrs, <<"f", "i", "r", "s", "t", "-", "n", "a", "m", "e">>) \/
               includes(attrs, <<"f", "n", "a", "m", "e">>)
        THEN "firstName"
        ELSE IF includes(attrs, <<"l", "a", "s", "t", "n", "a", "m", "e">>) \/
               includes(attrs, <<"l", "a", "s", "t", "-", "n", "a", "m", "e">>) \/
               includes(attrs, <<"l", "n", "a", "m", "e">>)
        THEN "lastName"
        ELSE IF includes(attrs, <<"p", "h", "o", "n", "e">>) \/
               includes(attrs, <<"t", "e", "l">>) \/
               element.type = "tel"
        THEN "phone"
        ELSE IF includes(attrs, <<"a", "d", "d", "r", "e", "s", "s">>)
        THEN "address"
        ELSE IF includes(attrs, <<"c", "i", "t", "y">>)
        THEN "city"
        ELSE IF includes(attrs, <<"s", "t", "a", "t", "e">>) \/
               includes(attrs, <<"p", "r", "o", "v", "i", "n", "c", "e">>)
        THEN "state"
        ELSE IF includes(attrs, <<"z", "i", "p">>) \/
               includes(attrs, <<"p", "o", "s", "t", "a", "l">>)
        THEN "zip"
        ELSE IF includes(attrs, <<"c", "o", "u", "n", "t", "r", "y">>)
        THEN "country"
        ELSE IF includes(attrs, <<"d", "a", "t", "e">>) \/
               includes(attrs, <<"d", "o", "b">>) \/
               element.type = "date"
        THEN "date"
        ELSE IF includes(attrs, <<"w", "e", "b", "s", "i", "t", "e">>) \/
               includes(attrs, <<"u", "r", "l">>) \/
               element.type = "url"
        THEN "url"
        ELSE IF includes(attrs, <<"m", "e", "s", "s", "a", "g", "e">>) \/
               includes(attrs, <<"c", "o", "m", "m", "e", "n", "t">>) \/
               element.tagName = "TEXTAREA"
        THEN "message"
        ELSE "text"

\* inferFieldPurpose(element): the purpose of the first rule that matches.
inferFieldPurpose(element) ==
    LET attrs == elementAttrs(element)
    IN  IF includes(attrs, <<"e", "m", "a", "i", "l">>) \/
               element.type = "email"
        THEN "email"
        ELSE IF includes(attrs, <<"f", "i", "r", "s", "t", "n", "a", "m", "e">>) \/
               includes(attrs, <<"f", "i", "r", "s", "t", "-", "n", "a", "m", "e">>) \/
               includes(attrs, <<"f", "n", "a", "m", "e">>)
        THEN "firstName"
        ELSE IF includes(attrs, <<"l", "a", "s", "t", "n", "a", "m", "e">>) \/
               includes(attrs, <<"l", "a", "s", "t", "-", "n", "a", "m", "e">>) \/
               includes(attrs, <<"l", "n", "a", "m", "e">>)
        THEN "lastName"
        ELSE IF includes(attrs, <<"n", "a", "m", "e">>) /\ ~includes(attrs, <<"u", "s", "e", "r">>)
        THEN "fullName"
        ELSE IF includes(attrs, <<"p", "h", "o", "n", "e">>) \/
               includes(attrs, <<"t", "e", "l">>) \/
               element.type = "tel"
        THEN "phone"
        ELSE IF includes(attrs, <<"a", "d", "d", "r", "e", "s", "s">>)
        THEN "address"
        ELSE IF includes(attrs, <<"c", "i", "t", "y">>)
        THEN "city"
        ELSE IF includes(attrs, <<"s", "t", "a", "t", "e">>) \/
               includes(attrs, <<"p", "r", "o", "v", "i", "n", "c", "e">>)
        THEN "state"
        ELSE IF includes(attrs, <<"z", "i", "p">>) \/
               includes(attrs, <<"p", "o", "s", "t", "a", "l">>)
        THEN "zip"
        ELSE IF includes(attrs, <<"c", "o", "u", "n", "t", "r", "y">>)
        THEN "country"
        ELSE IF includes(attrs, <<"d", "a", "t", "e">>) \/
               includes(attrs, <<"d", "o", "b">>) \/
               element.type = "date"
        THEN "date"
        ELSE IF includes(attrs, <<"w", "e", "b", "s", "i", "t", "e">>) \/
               includes(attrs, <<"u", "r", "l">>) \/
               element.type = "url"
        THEN "url"
        ELSE IF includes(attrs, <<"m", "e", "s", "s", "a", "g", "e">>) \/
               includes(attrs, <<"c", "o", "m", "m", "e", "n", "t">>) \/
               element.tagName = "TEXTAREA"
        THEN "message"
        ELSE "text"

\* The elements inferFieldPurpose is called with.
ElementNames ==
    { <<>>, <<"e", "m", "a", "i", "l">>, <<"U", "s", "e", "r", "N", "a", "m", "e">>, <<"f", "n", "a", "m", "e">>,
      <<"n", "a", "m", "e">>, <<"h", "o", "t", "e", "l">>, <<"u", "p", "d", "a", "t", "e">>,
      <<"l", "n", "a", "m", "e">>, <<"c", "o", "m", "m", "e", "n", "t">> }
ElementIds == { <<>>, <<"u", "s", "e", "r">>, <<"E", "m", "a", "i", "l">> }
ElementPlaceholders == { <<>>, <<"n", "a", "m", "e">>, <<"c", "i", "t", "y">> }
ElementAutocompletes == { <<>>, <<"t", "e", "l">> }
ElementTypes == { "text", "email", "tel", "date", "url" }
ElementTags == { "INPUT", "TEXTAREA" }

Elements ==
    [name : ElementNames, id : ElementIds, placeholder : ElementPlaceholders,
     className : { <<>> }, ariaLabel : { <<>> },
     autocomplete : ElementAutocompletes, type : ElementTypes,
     tagName : ElementTags]

\* A caller is about to call inferFieldPurpose(element).
InferCalls ==
    { [fn |-> "inferFieldPurpose", args |-> <<element>>, returned |-> FALSE,
       result |-> <<>>] : element \in Elements }

\* The call returns.
InferPurpose ==
    /\ call.fn = "inferFieldPurpose"
    /\ ~call.returned
    /\ call' = [call EXCEPT !.returned = TRUE,
                            !.result = <<inferFieldPurpose(call.args[1])>>]
    /\ UNCHANGED <<world, exec, jobs, queue, clock, proc>>

\* --- FormLogic.verifySubmission ---

\* The page after the submit: its URL, its HTML, the number of elements the
\* success selector matches, and which page read rejects ("content": every
\* page.content(); "count": locator(...).count(); "none").
PageUrls == { <<"/", "f", "o", "r", "m">>, <<"/", "o", "k">> }
PageContents ==
    { <<>>, <<"d", "o", "n", "e">>, <<"T", "h", "a", "n", "k", " ", "y", "o", "u">>, <<"E", "r", "r", "o", "r">>,
      <<"c", "o", "m", "p", "l", "e", "t", "e", " ", "E", "r", "r", "o", "r">>,
      <<"d", "o", "n", "e", " ", "E", "r", "r", "o", "r">> }
PageFailings == {"none", "content", "count"}
Pages ==
    [url : PageUrls, content : PageContents, count : {0, 1},
     failing : PageFailings]

\* successIndicators; <<>> is an indicator that is not configured.
SuccessIndicators ==
    [successUrl : { <<>>, <<"/", "o", "k">> },
     successMessage : { <<>>, <<"d", "o", "n", "e">> },
     successSelector : { <<>>, <<".", "o", "k">> }]

successKeywords ==
    << <<"s", "u", "c", "c", "e", "s", "s">>,
       <<"t", "h", "a", "n", "k", " ", "y", "o", "u">>,
       <<"s", "u", "b", "m", "i", "t", "t", "e", "d">>,
       <<"r", "e", "c", "e", "i", "v", "e", "d">>,
       <<"c", "o", "m", "p", "l", "e", "t", "e">> >>

errorKeywords ==
    << <<"e", "r", "r", "o", "r">>,
       <<"i", "n", "v", "a", "l", "i", "d">>,
       <<"r", "e", "q", "u", "i", "r", "e", "d">>,
       <<"f", "a", "i", "l", "e", "d">>,
       <<"i", "n", "c", "o", "r", "r", "e", "c", "t">> >>

\* error.message of a rejected page read.
PageReadError == <<"Target closed">>

VerifyResult(success, method, message) ==
    [success |-> success, method |-> method, message |-> message]

\* for (const keyword of keywords) if (content.includes(keyword)): the first
\* keyword of the list the content includes, <<>> when there is none.
firstKeyword(keywords, content) ==
    IF \E i \in 1..Len(keywords) : includes(content, keywords[i])
    THEN keywords[CHOOSE i \in 1..Len(keywords) :
                    /\ includes(content, keywords[i])
                    /\ \A k \in 1..(i - 1) : ~includes(content, keywords[k])]
    ELSE <<>>

\* The generic part of verifySubmission, with the error keywords looked for
\* before the success keywords.
genericDetectionErrorFirst(content) ==
    IF firstKeyword(errorKeywords, content) # <<>>
    THEN VerifyResult(FALSE, "error",
             <<"Found error keyword: ">> \o firstKeyword(errorKeywords, content))
    ELSE IF firstKeyword(successKeywords, content) # <<>>
    THEN VerifyResult(TRUE, "keyword",
             <<"Found keyword: ">> \o firstKeyword(successKeywords, content))
    ELSE VerifyResult(FALSE, Null, <<"Unable to determine submission status">>)

\* The generic part of verifySubmission: success keywords, then error keywords,
\* in the lower-cased content.
genericDetection(content) ==
    IF firstKeyword(successKeywords, content) # <<>>
    THEN VerifyResult(TRUE, "keyword",
             <<"Found keyword: ">> \o firstKeyword(successKeywords, content))
    ELSE IF firstKeyword(errorKeywords, content) # <<>>
    THEN VerifyResult(FALSE, "error",
             <<"Found error keyword: ">> \o firstKeyword(errorKeywords, content))
    ELSE VerifyResult(FALSE, Null, <<"Unable to determine submission status">>)

\* verifySubmission(page, successIndicators): the checks in source order; a
\* rejected page read is caught and reported as method 'error'.
verifySubmission(page, successIndicators) ==
    LET caught == VerifyResult(FALSE, "error", PageReadError) IN
    IF /\ successIndicators.successUrl # <<>>
       /\ includes(page.url, successIndicators.successUrl)
    THEN VerifyResult(TRUE, "url", <<"URL changed to ">> \o page.url)
    ELSE IF successIndicators.successMessage # <<>> /\ page.failing = "content"
    THEN caught
    ELSE IF /\ successIndicators.successMessage # <<>>
            /\ includes(page.content, successIndicators.successMessage)
    THEN VerifyResult(TRUE, "message", <<"Success message found">>)
    ELSE IF successIndicators.successSelector # <<>> /\ page.failing = "count"
    THEN caught
    ELSE IF successIndicators.successSelector # <<>> /\ page.count > 0
    THEN VerifyResult(TRUE, "element", <<"Success element found">>)
    ELSE IF page.failing = "content"
    THEN caught
    ELSE genericDetection(toLowerCase(page.content))

\* A caller is about to call verifySubmission(page, successIndicators).
VerifyCalls ==
    { [fn |-> "verifySubmission", args |-> <<page, ind>>, returned |-> FALSE,
       result |-> <<>>] : page \in Pages, ind \in SuccessIndicators }

\* The call returns.
VerifySubmissionReturns ==
    /\ call.fn = "verifySubmission"
    /\ ~call.returned
    /\ call' = [call EXCEPT !.returned = TRUE,
                            !.result = <<verifySubmission(call.args[1],
                                                          call.args[2])>>]
    /\ UNCHANGED <<world, exec, jobs, queue, clock, proc>>

\* --- FormLogic.fillForm ---

\* Elements of the page under SpecFields.
MaxFields == 2

\* The input, textarea and select elements of the page, in document order,
\* all children of one form.  skipped: the element is hidden, disabled, a
\* submit or a button, which detectFormFields passes over.  An element may
\* occur twice on a page (the radio buttons of one group share a name).
DomElements ==
    { [name |-> <<"a">>, id |-> <<>>, tag |-> "input", skipped |-> FALSE],
      [name |-> <<"e">>, id |-> <<"b">>, tag |-> "input", skipped |-> FALSE],
      [name |-> <<"b">>, id |-> <<>>, tag |-> "input", skipped |-> TRUE],
      [name |-> <<>>, id |-> <<>>, tag |-> "select", skipped |-> FALSE] }

DomPages == UNION { [1..n -> DomElements] : n \in 0..MaxFields }

\* field.selector of the element at position i (index = i - 1) of
\* querySelectorAll('input, textarea, select'): #id, else [name="..."], else
\* tag:nth-of-type(index + 1).
fieldSelector(element, i) ==
    IF element.id # <<>> THEN [by |-> "id", value |-> element.id, nth |-> 0]
    ELSE IF element.name # <<>>
    THEN [by |-> "name", value |-> element.name, nth |-> 0]
    ELSE [by |-> "nth-of-type", value |-> <<element.tag>>, nth |-> i]

\* The position of the first element of the page the selector matches, 0
\* when it matches none (page.locator(selector).first()).  tag:nth-of-type(n)
\* matches the n-th of the siblings with that tag.
firstMatch(elements, selector) ==
    LET Matches(j) ==
            CASE selector.by = "id" -> elements[j].id = selector.value
              [] selector.by = "name" -> elements[j].name = selector.value
              [] OTHER ->
                   /\ <<elements[j].tag>> = selector.value
                   /\ Cardinality({ k \in 1..j : elements[k].tag = elements[j].tag })
                         = selector.nth
    IN  IF \E j \in 1..Len(elements) : Matches(j)
        THEN CHOOSE j \in 1..Len(elements) :
                 Matches(j) /\ \A k \in 1..(j - 1) : ~Matches(k)
        ELSE 0

\* The fields the forEach of detectFormFields pushes for elements i..Len: one
\* for every element it does not pass over (purpose left empty).
RECURSIVE detectedFields(_, _)
detectedFields(elements, i) ==
    IF i > Len(elements) THEN <<>>
    ELSE IF elements[i].skipped THEN detectedFields(elements, i + 1)
    ELSE <<[name |-> elements[i].name, id |-> elements[i].id,
            purpose |-> <<>>, tagName |-> elements[i].tag,
            selector |-> fieldSelector(elements[i], i)]>>
         \o detectedFields(elements, i + 1)

\* detectFormFields(page): page.evaluate of a function that calls
\* this.inferFieldPurpose(element) for every element it does not pass over.
\* Nothing defines inferFieldPurpose in the page (it is a static method of the
\* class in Node), so the call throws a TypeError at the first such element
\* and page.evaluate rejects; a page with no such element gives [].
\* evaluateOk = FALSE: page.evaluate rejects for a reason of the page.
detectFormFields(elements, evaluateOk) ==
    IF ~evaluateOk
    THEN [threw |-> "evaluate", fields |-> <<>>]
    ELSE IF \E i \in 1..Len(elements) : ~elements[i].skipped
    THEN [threw |-> "TypeError", fields |-> <<>>]
    ELSE [threw |-> "none", fields |-> detectedFields(elements, 1)]

NoResults == [filled |-> <<>>, failed |-> <<>>, skipped |-> <<>>]

\* The text of a selector.
selectorText(selector) ==
    CASE selector.by = "id" -> <<"#">> \o selector.value
      [] selector.by = "name" -> <<"[name=">> \o selector.value \o <<"]">>
      [] OTHER -> selector.value \o <<":nth-of-type", ToString(selector.nth)>>

\* field.name || field.selector
fieldLabel(field) ==
    IF field.name # <<>> THEN field.name ELSE selectorText(field.selector)

\* The positions of the elements of the page that are fields: not hidden,
\* not disabled, neither submit nor button.
Eligible(elements) == { i \in 1..Len(elements) : ~elements[i].skipped }

\* The position of the k-th of them.
EligibleAt(elements, k) ==
    CHOOSE i \in Eligible(elements) :
        Cardinality({ j \in Eligible(elements) : j <= i }) = k

\* The place among the fields of the field made from the element at
\* position i.
FieldIndex(elements, i) == Cardinality({ j \in Eligible(elements) : j <= i })

\* The label of the field made from the element at position i.
ElementLabel(elements, i) ==
    IF elements[i].name # <<>> THEN elements[i].name
    ELSE selectorText(fieldSelector(elements[i], i))

\* for (const field of fields) of fillForm: outcomes[i] is what fillField does
\* for the i-th field ("ok", or "fails": it rejects).
RECURSIVE fillFields(_, _, _, _, _)
fillFields(fields, formData, outcomes, i, results) ==
    IF i > Len(fields) THEN results
    ELSE LET value == getValueForField(fields[i], formData)
             next ==
                 IF value \in {Null, Undefined}
                 THEN [results EXCEPT !.skipped =
                          Append(@, [field |-> fieldLabel(fields[i]),
                                     reason |-> "No matching data"])]
                 ELSE IF outcomes[i] = "ok"
                 THEN [results EXCEPT !.filled =
                          Append(@, [field |-> fieldLabel(fields[i])])]
                 ELSE [results EXCEPT !.failed =
                          Append(@, [field |-> fieldLabel(fields[i]),
                                     error |-> "fillField"])]
         IN  fillFields(fields, formData, outcomes, i + 1, next)

\* fillForm(page, formData): what it throws, or the FillResult it returns.
fillForm(elements, formData, evaluateOk, outcomes) ==
    LET d == detectFormFields(elements, evaluateOk)
    IN  IF d.threw # "none"
        THEN [threw |-> d.threw, results |-> NoResults]
        ELSE [threw |-> "none",
              results |-> fillFields(d.fields, formData, outcomes, 1, NoResults)]

\* A caller is about to call fillForm on a page.
FillFormCalls ==
    UNION { { [fn |-> "fillForm", args |-> <<elements, fd, evaluateOk, outcomes>>,
               returned |-> FALSE, result |-> <<>>] :
                fd \in { f \in FormDataInputs : Len(f) <= 1 },
                evaluateOk \in BOOLEAN,
                outcomes \in [1..Len(elements) -> {"ok", "fails"}] } :
            elements \in DomPages }

\* The call returns or throws.
FillFormEnds ==
    /\ call.fn = "fillForm"
    /\ ~call.returned
    /\ call' = [call EXCEPT !.returned = TRUE,
                            !.result = <<fillForm(call.args[1], call.args[2],
                                                  call.args[3], call.args[4])>>]
    /\ UNCHANGED <<world, exec, jobs, queue, clock, proc>>

InitFields ==
    /\ world = InitWorld
    /\ exec = [w \in JobSlots |-> IdleExec]
    /\ jobs = 0
    /\ queue = {}
    /\ clock = 0
    /\ proc = InitProc
    /\ call \in GetValueCalls \cup InferCalls \cup VerifyCalls
                 \cup FillFormCalls

NextFields ==
    \/ GetValue
    \/ InferPurpose
    \/ VerifySubmissionReturns
    \/ FillFormEnds

SpecFields == InitFields /\ [][NextFields]_vars

-----------------------------------------------------------------------------
(* The authenticated API server: middleware and routes (SpecApi) *)

\* The configured key and a key that is not the configured one.
GoodKey == <<"k1">>
BadKey == <<"k2">>

\* process.env.API_KEY: <<>> when it is not set (or empty).
ServerKeys == {<<>>, GoodKey}

\* The value of a request header as a sequence of pieces; <<>> is a header
\* that is absent or empty (both are falsy).
BearerPrefix == "Bearer "
XApiKeyHeaders == {<<>>, GoodKey, BadKey}
AuthorizationHeaders ==
    {<<>>, GoodKey, <<BearerPrefix>>, <<BearerPrefix>> \o GoodKey,
     <<BearerPrefix>> \o BadKey}

Methods == {"GET", "POST", "DELETE", "OPTIONS"}

\* Request paths, as their segments.
Paths ==
    {<<"health">>, <<"api", "health">>, <<"api", "queue", "stats">>,
     <<"api", "tasks", "submit">>, <<"api", "tasks", "j1">>,
     <<"api", "profiles">>, <<"api", "profiles", "s1">>,
     <<"api", "profiles", "cleanup">>}

Requests ==
    [method : Methods, path : Paths, xApiKey : XApiKeyHeaders,
     authorization : AuthorizationHeaders]

\* String.prototype.replace(piece, ''): the first occurrence is removed.
replaceFirst(s, piece) ==
    IF \E i \in 1..Len(s) : s[i] = piece
    THEN LET i == CHOOSE k \in 1..Len(s) :
                     s[k] = piece /\ \A m \in 1..(k - 1) : s[m] # piece
         IN  SubSeq(s, 1, i - 1) \o SubSeq(s, i + 1, Len(s))
    ELSE s

\* req.headers['x-api-key'] || req.headers['authorization']?.replace('Bearer ', '')
requestApiKey(req) ==
    IF req.xApiKey # <<>> THEN req.xApiKey
    ELSE replaceFirst(req.authorization, BearerPrefix)

\* The middleware letting every request that carries some key go on.
authenticateAPIKeyAnyKey(mountedPath, req, validApiKey) ==
    IF mountedPath = <<"health">> THEN 0
    ELSE IF requestApiKey(req) = <<>> THEN 401
    ELSE IF validApiKey = <<>> THEN 500
    ELSE 0

\* authenticateAPIKey(req, res, next): the status it answers with, 0 when it
\* calls next().  mountedPath is req.path, the path below the mount point.
authenticateAPIKey(mountedPath, req, validApiKey) ==
    IF mountedPath = <<"health">> THEN 0
    ELSE IF requestApiKey(req) = <<>> THEN 401
    ELSE IF validApiKey = <<>> THEN 500
    ELSE IF requestApiKey(req) # validApiKey THEN 403
    ELSE 0

\* The route whose handler a request is given to, "none" when no route
\* matches (the 404 handler answers).
routeOf(req) ==
    LET m == req.method
        p == req.path
    IN  CASE m = "GET" /\ p = <<"health">> -> "GET /health"
          [] m = "GET" /\ p = <<"api", "queue", "stats">> -> "GET /api/queue/stats"
          [] m = "POST" /\ p = <<"api", "tasks", "submit">> -> "POST /api/tasks/submit"
          [] m = "GET" /\ Len(p) = 3 /\ SubSeq(p, 1, 2) = <<"api", "tasks">>
                -> "GET /api/tasks/:jobId"
          [] m = "DELETE" /\ Len(p) = 3 /\ SubSeq(p, 1, 2) = <<"api", "tasks">>
                -> "DELETE /api/tasks/:jobId"
          [] m = "GET" /\ p = <<"api", "profiles">> -> "GET /api/profiles"
          [] m = "DELETE" /\ Len(p) = 3 /\ SubSeq(p, 1, 2) = <<"api", "profiles">>
                -> "DELETE /api/profiles/:accountId"
          [] m = "POST" /\ p = <<"api", "profiles", "cleanup">>
                -> "POST /api/profiles/cleanup"
          [] OTHER -> "none"

\* The middleware chain of the app: the CORS middleware answers OPTIONS with
\* 200; app.use('/api', authenticateAPIKey) runs for the paths under /api;
\* then the routes; then the 404 handler.  by: what ended the chain; status:
\* the status of an answer given before a route (0: a route handler runs).
handleRequest(req, validApiKey) ==
    LET underApi == Len(req.path) >= 1 /\ req.path[1] = "api"
        auth == IF underApi
                THEN authenticateAPIKey(Tail(req.path), req, validApiKey)
                ELSE 0
    IN  IF req.method = "OPTIONS"
        THEN [by |-> "cors", status |-> 200, route |-> "none"]
        ELSE IF auth # 0
        THEN [by |-> "auth", status |-> auth, route |-> "none"]
        ELSE IF routeOf(req) # "none"
        THEN [by |-> "route", status |-> 0, route |-> routeOf(req)]
        ELSE [by |-> "notFound", status |-> 404, route |-> "none"]

\* A request arrives at a server whose API_KEY is validApiKey.
ApiCalls ==
    { [fn |-> "request", args |-> <<req, validApiKey>>, returned |-> FALSE,
       result |-> <<>>] : req \in Requests, validApiKey \in ServerKeys }

\* The chain has run up to an answer or a route handler.
Respond ==
    /\ call.fn = "request"
    /\ ~call.returned
    /\ call' = [call EXCEPT !.returned = TRUE,
                            !.result = <<handleRequest(call.args[1],
                                                       call.args[2])>>]
    /\ UNCHANGED <<world, exec, jobs, queue, clock, proc>>

InitApi ==
    /\ world = InitWorld
    /\ exec = [w \in JobSlots |-> IdleExec]
    /\ jobs = 0
    /\ queue = {}
    /\ clock = 0
    /\ proc = InitProc
    /\ call \in ApiCalls

NextApi == Respond

SpecApi == InitApi /\ [][NextApi]_vars

-----------------------------------------------------------------------------
(* BrowserManager.launchBrowser: the proxy credentials (SpecProxy) *)

\* Browser processes and contexts open at once under SpecProxy.
MaxOpen == 2

LowerLetters ==
    {"a", "b", "c", "d", "e", "f", "g", "h", "i", "j", "k", "l", "m", "n", "o",
     "p", "q", "r", "s", "t", "u", "v", "w", "x", "y", "z"}

\* config.proxy.decodServer
SubdomainServerUs == <<"u", "s", ".", "d", "e", "c", "o", "d", "o", ".", "c", "o", "m", ":", "1", "0", "0", "0", "1">>
SubdomainServerBe == <<"B", "E", ".", "d", "e", "c", "o", "d", "o", ".", "c", "o", "m">>
GatewayServer == <<"g", "a", "t", "e", ".", "d", "e", "c", "o", "d", "o", ".", "c", "o", "m", ":", "7", "0", "0", "0">>
ThreeLetterServer == <<"u", "s", "a", ".", "d", "e", "c", "o", "d", "o", ".", "c", "o", "m">>
ProxyServers ==
    {SubdomainServerUs, SubdomainServerBe, GatewayServer, ThreeLetterServer}

\* /^[a-z]{2}\.decodo\.com/i.test(server)
isSubdomainRouting(server) ==
    /\ Len(server) >= 13
    /\ LowerChar(server[1]) \in LowerLetters
    /\ LowerChar(server[2]) \in LowerLetters
    /\ toLowerCase(SubSeq(server, 3, 13)) = <<".", "d", "e", "c", "o", "d", "o", ".", "c", "o", "m">>

\* config.proxy.  A text built by a template literal is the sequence of its
\* pieces; username is <<>> for '' and the other settings are "" when empty.
ProxyConfigs ==
    [enabled : BOOLEAN, decodServer : ProxyServers,
     username : { <<>>, <<"user">> }, password : {"", "pw"},
     country : {"", "us"}, state : {"", "texas"}, city : {"", "austin"}]

\* `-label-${value}` when the value is not empty.
locationSuffix(label, value) == IF value # "" THEN <<label, value>> ELSE <<>>

\* proxyUsername with the session put before the location.
proxyUsernameSessionFirst(proxy, accountId) ==
    IF ~proxy.enabled THEN <<>>
    ELSE IF isSubdomainRouting(proxy.decodServer) THEN proxy.username
    ELSE proxy.username
         \o <<"-session-", accountId>>
         \o locationSuffix("-country-", proxy.country)
         \o locationSuffix("-state-", proxy.state)
         \o locationSuffix("-city-", proxy.city)

\* proxyUsername as launchBrowser builds it; <<>> is null.
proxyUsername(proxy, accountId) ==
    IF ~proxy.enabled THEN <<>>
    ELSE IF isSubdomainRouting(proxy.decodServer) THEN proxy.username
    ELSE proxy.username
         \o locationSuffix("-country-", proxy.country)
         \o locationSuffix("-state-", proxy.state)
         \o locationSuffix("-city-", proxy.city)
         \o <<"-session-", accountId>>

\* What browser.newContext is given for the proxy: the username built for the
\* session, and whether httpCredentials are attached at all
\* (proxyUsername && proxyPassword).
contextProxy(proxy, accountId) ==
    [accountId |-> accountId,
     username |-> proxyUsername(proxy, accountId),
     httpCredentials |-> /\ proxyUsername(proxy, accountId) # <<>>
                         /\ proxy.enabled
                         /\ proxy.password # ""]

\* Under SpecProxy the world also holds config.proxy and, for every open
\* context, what it was created with.
ProxyWorld(proxy) ==
    [profilesDir |-> {}, browsers |-> EmptyMap, contexts |-> EmptyMap,
     procs |-> {}, ctxs |-> {}, proxy |-> proxy,
     ctxProxy |-> [h \in {} |-> contextProxy(proxy, "s1")]]

\* launchBrowser(sid) called by a client of the browser manager.
LaunchSession(sid) ==
    /\ Cardinality(world.procs \cup world.ctxs) < MaxOpen
    /\ \E outcome \in LaunchOutcomes :
         LET r == launchBrowser(world, sid, outcome)
             h == FreshHandle(world)
         IN  /\ world' =
                   IF h \in r.world.ctxs
                   THEN [r.world EXCEPT
                           !.ctxProxy = MapSet(@, h, contextProxy(world.proxy, sid))]
                   ELSE r.world
             /\ call' = [fn |-> "launchBrowser", args |-> <<sid>>,
                         returned |-> r.threw = "none",
                         result |-> <<r.threw, <<r.handle>>>>]
    /\ UNCHANGED <<proc, exec, jobs, queue, clock>>

\* closeBrowser(sid) called by a client of the browser manager.
CloseSession(sid) ==
    /\ \E ctxOk, brOk \in BOOLEAN :
         LET w == closeBrowser(world, sid, ctxOk, brOk)
         IN  world' = [w EXCEPT !.ctxProxy = [h \in w.ctxs |-> world.ctxProxy[h]]]
    /\ call' = [fn |-> "closeBrowser", args |-> <<sid>>, returned |-> TRUE,
                result |-> <<"none", <<>>>>]
    /\ UNCHANGED <<proc, exec, jobs, queue, clock>>

InitProxy ==
    /\ \E proxy \in ProxyConfigs : world = ProxyWorld(proxy)
    /\ exec = [w \in JobSlots |-> IdleExec]
    /\ jobs = 0
    /\ queue = {}
    /\ clock = 0
    /\ proc = InitProc
    /\ call = NoCall

NextProxy ==
    \/ \E sid \in SessionIds : LaunchSession(sid)
    \/ \E sid \in SessionIds : CloseSession(sid)

SpecProxy == InitProxy /\ [][NextProxy]_vars

-----------------------------------------------------------------------------
(* FormFillingWorker.shutdown (SpecShutdown) *)

\* process.on('SIGTERM' / 'SIGINT', () => this.shutdown()): the first call
\* sets isShuttingDown and calls worker.close(); a later call returns at once.
Signal ==
    /\ proc.pc # "exited"
    /\ proc.signals < MaxSignals
    /\ proc' = IF proc.isShuttingDown
               THEN [proc EXCEPT !.signals = @ + 1]
               ELSE [proc EXCEPT !.signals = @ + 1, !.isShuttingDown = TRUE,
                                 !.pc = "closingWorker"]
    /\ UNCHANGED <<call, world, exec, jobs, queue, clock>>

\* The keys closeAll iterates over: Array.from(this.browsers.keys()).
closeAllKeys(w) == DOMAIN w.browsers

\* await this.worker.close(): it resolves when the jobs in flight have
\* finished, or it rejects; a rejection goes to the catch of shutdown, which
\* calls process.exit(1).
WorkerClose ==
    /\ proc.pc = "closingWorker"
    /\ \E resolves \in BOOLEAN :
         /\ resolves => \A w \in DOMAIN exec : exec[w].pc \in {"idle", "done"}
         /\ proc' = IF resolves
                    THEN [proc EXCEPT !.pc = "closeAll",
                                      !.pending = closeAllKeys(world)]
                    ELSE [proc EXCEPT !.pc = "exited", !.exitCode = 1]
    /\ UNCHANGED <<call, world, exec, jobs, queue, clock>>

\* closeAll: await this.closeBrowser(accountId) for each key, then
\* process.exit(0).
CloseAll ==
    /\ proc.pc = "closeAll"
    /\ IF proc.pending = {}
       THEN /\ proc' = [proc EXCEPT !.pc = "exited", !.exitCode = 0]
            /\ world' = world
       ELSE \E accountId \in proc.pending, ctxOk \in BOOLEAN, brOk \in BOOLEAN :
              /\ world' = closeBrowser(world, accountId, ctxOk, brOk)
              /\ proc' = [proc EXCEPT !.pending = @ \ {accountId}]
    /\ UNCHANGED <<call, exec, jobs, queue, clock>>

\* The jobs the slot runs while a shutdown may arrive: checkout jobs.
ReceiveCheckout(w) ==
    /\ proc.pc = "running"
    /\ exec[w].pc \in {"idle", "done"}
    /\ jobs < MaxJobs
    /\ \E sid \in SessionIds :
         Set(w, [IdleExec EXCEPT !.job = JobData("acct1", sid, TRUE, FALSE, {}),
                                 !.pc = "p10"])
    /\ jobs' = jobs + 1
    /\ UNCHANGED <<call, world, queue, clock, proc>>

\* The steps of processJob a checkout job reaches.
NextShutdown ==
    \/ Signal
    \/ WorkerClose
    \/ CloseAll
    \/ \E w \in JobSlots :
         \/ ReceiveCheckout(w)
         \/ UpdateProgress(w)
         \/ LaunchBrowser(w)
         \/ Goto(w)
         \/ TakeScreenshot(w)
         \/ DetectType(w)
         \/ CheckBlocked(w)
         \/ FillCheckout(w)
         \/ CatchError(w)
         \/ FinallyClose(w)
         \/ FinallyDelete(w)

SpecShutdown == Init /\ [][NextShutdown]_vars

-----------------------------------------------------------------------------
(* QueueManager and the broker (SpecQueue) *)

\* What a caller may pass to addTask: accountId and formData may be missing
\* (NoFormData stands for a formData that is absent or not an object);
\* targetUrl is left out (the configured URL, which has no marker, is used).
NoFormData == {Undefined}

\* priority = 1 in the parameter destructuring of addTask.
DefaultPriority == 1

\* The priority of the request body: <<>> when the body has none.
Priorities == {<<>>, <<2>>}

TaskInputs ==
    [accountId : Accounts \cup {Undefined},
     formData : {{}, NoFormData},
     cartpandaUrl : {FALSE},
     priority : Priorities]

\* The priority option addTask passes to formQueue.add.
addTaskPriority(taskData) ==
    IF taskData.priority = <<>> THEN DefaultPriority ELSE taskData.priority[1]

\* if (!accountId) throw ...; if (!formData || typeof formData !== 'object') throw ...
addTaskRejects(taskData) ==
    ~Truthy(taskData.accountId) \/ taskData.formData = NoFormData

\* The data object addTask passes to formQueue.add: accountId, formData,
\* targetUrl, submitSelector, successIndicators, options and timestamp.
\* It has no sessionId key, so job.data.sessionId reads as undefined.
addTaskData(taskData) ==
    JobData(taskData.accountId, Undefined, taskData.cartpandaUrl, FALSE,
            taskData.formData)

\* jobId: `${accountId}-${Date.now()}`
addTaskJobId(taskData, now) == <<taskData.accountId, now>>

QueuedIds == { j.id : j \in queue }

\* addTask(taskData): validation, then formQueue.add, which ignores a job
\* whose id the queue already holds.  asked keeps what the caller passed as
\* priority.
AddTask ==
    /\ Cardinality(queue) < MaxTasks
    /\ \E taskData \in TaskInputs :
         queue' =
            IF addTaskRejects(taskData) \/ addTaskJobId(taskData, clock) \in QueuedIds
            THEN queue
            ELSE queue \cup {[id |-> addTaskJobId(taskData, clock),
                              data |-> addTaskData(taskData),
                              asked |-> taskData.priority,
                              priority |-> addTaskPriority(taskData),
                              state |-> "waiting",
                              attemptsMade |-> 0,
                              delay |-> 0]}
    /\ UNCHANGED <<call, proc, world, exec, jobs, clock>>

\* Time passes.
Tick ==
    /\ clock < MaxClock
    /\ clock' = clock + 1
    /\ UNCHANGED <<call, proc, world, exec, jobs, queue>>

\* The waiting jobs the broker hands out next.  The priority option of
\* formQueue.add is the broker's: of the waiting jobs, one with the lowest
\* priority number is handed to a worker first (1 is the most urgent).
NextWaiting(q) ==
    { j \in q : /\ j.state = "waiting"
                /\ \A k \in q : k.state = "waiting" => j.priority <= k.priority }

\* A free worker slot takes a waiting job: the Worker calls processJob(job).
Fetch(w) ==
    /\ proc.pc = "running"
    /\ exec[w].pc = "idle"
    /\ \E j \in NextWaiting(queue) :
         /\ queue' = (queue \ {j}) \cup {[j EXCEPT !.state = "active"]}
         /\ Set(w, [IdleExec EXCEPT !.job = j.data, !.jobId = j.id, !.pc = "p10"])
    /\ UNCHANGED <<call, proc, world, jobs, clock>>

\* backoff: { type: 'exponential', delay }: the wait before the next attempt
\* of a job that has made attemptsMade attempts.
backoffDelay(attemptsMade) == (2 ^ (attemptsMade - 1)) * RetryDelay

\* The broker retrying one time more than the attempts option allows.
settledOneMore(j, outcome) ==
    IF outcome = "returned"
    THEN [j EXCEPT !.attemptsMade = @ + 1, !.state = "completed"]
    ELSE IF j.attemptsMade + 1 <= MaxRetries
         THEN [j EXCEPT !.attemptsMade = @ + 1, !.state = "delayed",
                        !.delay = backoffDelay(j.attemptsMade + 1)]
         ELSE [j EXCEPT !.attemptsMade = @ + 1, !.state = "failed"]

\* What the broker does with job j when processJob has returned or thrown
\* (defaultJobOptions: attempts, backoff): a return completes the job; a throw
\* counts the attempt and delays the job for the backoff, or fails it when the
\* attempts are used up.
settled(j, outcome) ==
    IF outcome = "returned"
    THEN [j EXCEPT !.attemptsMade = @ + 1, !.state = "completed"]
    ELSE IF j.attemptsMade + 1 < MaxRetries
         THEN [j EXCEPT !.attemptsMade = @ + 1, !.state = "delayed",
                        !.delay = backoffDelay(j.attemptsMade + 1)]
         ELSE [j EXCEPT !.attemptsMade = @ + 1, !.state = "failed"]

\* processJob has returned or thrown: the broker settles the job.
Settle(w) ==
    /\ exec[w].pc = "done"
    /\ \E j \in queue :
         /\ j.id = exec[w].jobId
         /\ queue' = (queue \ {j}) \cup {settled(j, exec[w].outcome)}
    /\ Set(w, IdleExec)
    /\ UNCHANGED <<call, proc, world, jobs, clock>>

\* The backoff of a delayed job has passed: the job waits for a worker again.
Promote ==
    /\ \E j \in queue :
         /\ j.state = "delayed"
         /\ queue' = (queue \ {j}) \cup {[j EXCEPT !.state = "waiting"]}
    /\ UNCHANGED <<call, proc, world, exec, jobs, clock>>

InitQueue ==
    /\ world = InitWorld
    /\ exec = [w \in QueueSlots |-> IdleExec]
    /\ jobs = 0
    /\ queue = {}
    /\ clock = 0
    /\ proc = InitProc
    /\ call = NoCall

\* The steps of processJob a job enqueued by addTask reaches.
NextQueue ==
    \/ AddTask
    \/ Tick
    \/ Promote
    \/ \E w \in QueueSlots :
         \/ Fetch(w)
         \/ UpdateProgress(w)
         \/ LaunchBrowser(w)
         \/ CatchError(w)
         \/ FinallyClose(w)
         \/ FinallyDelete(w)
         \/ Settle(w)

SpecQueue == InitQueue /\ [][NextQueue]_vars

-----------------------------------------------------------------------------
(* QueueManager.addTask called by itself (SpecTasks) *)

\* config.form.targetUrl and config.form.submitSelector.
ConfiguredTargetUrl == "config.form.targetUrl"
ConfiguredSubmitSelector == "config.form.submitSelector"

\* The object {}.
EmptyObject == "{}"

\* The optional keys of taskData.
Optionals ==
    {"targetUrl", "submitSelector", "successIndicators", "options", "priority"}

\* A taskData with the optional keys of `given` present.
TaskBody(acct, fd, given) ==
    [accountId |-> acct,
     formData |-> fd,
     cartpandaUrl |-> FALSE,
     targetUrl |-> IF "targetUrl" \in given
                   THEN "https://shop.example/form" ELSE Undefined,
     submitSelector |-> IF "submitSelector" \in given THEN "#go" ELSE Undefined,
     successIndicators |-> IF "successIndicators" \in given
                           THEN "{successUrl}" ELSE Undefined,
     options |-> IF "options" \in given THEN "{takeScreenshots}" ELSE Undefined,
     priority |-> IF "priority" \in given THEN <<2>> ELSE <<>>]

\* What addTask is called with: accountId and formData present or not, and
\* none, one or all of the optional keys.
TaskBodies ==
    { TaskBody(acct, fd, given) :
        acct \in Accounts \cup {Undefined, ""},
        fd \in {{}, NoFormData},
        given \in { g \in SUBSET Optionals : Cardinality(g) \in {0, 1, 5} } }

\* v || d
OrElse(v, d) == IF Truthy(v) THEN v ELSE d

\* The data object addTask passes to formQueue.add, key by key (timestamp
\* left out); options = {} is the default of the destructuring.
addTaskPayload(taskData) ==
    [accountId |-> taskData.accountId,
     formData |-> taskData.formData,
     targetUrl |-> OrElse(taskData.targetUrl, ConfiguredTargetUrl),
     submitSelector |-> OrElse(taskData.submitSelector, ConfiguredSubmitSelector),
     successIndicators |-> OrElse(taskData.successIndicators, EmptyObject),
     options |-> IF taskData.options = Undefined
                 THEN EmptyObject ELSE taskData.options]

\* formQueue.add(name, data, { priority, jobId }): the broker adds the job
\* unless it already holds a job with this id; the call resolves to the job
\* with this id either way.
formQueueAdd(q, job) ==
    IF \E j \in q : j.id = job.id THEN q ELSE q \cup {job}

\* One call of addTask(taskData) at time clock: it throws, or it returns the
\* job (its id is kept in the result).  jobs counts the calls.
AddTaskCall ==
    /\ jobs < MaxCalls
    /\ \E taskData \in TaskBodies :
         LET job == [id |-> addTaskJobId(taskData, clock),
                     data |-> addTaskPayload(taskData),
                     priority |-> addTaskPriority(taskData)]
         IN  IF addTaskRejects(taskData)
             THEN /\ queue' = queue
                  /\ call' = [fn |-> "addTask", args |-> <<taskData, clock>>,
                              returned |-> FALSE, result |-> <<>>]
             ELSE /\ queue' = formQueueAdd(queue, job)
                  /\ call' = [fn |-> "addTask", args |-> <<taskData, clock>>,
                              returned |-> TRUE, result |-> <<job.id>>]
    /\ jobs' = jobs + 1
    /\ UNCHANGED <<proc, world, exec, clock>>

NextTasks ==
    \/ AddTaskCall
    \/ Tick

SpecTasks == InitQueue /\ [][NextTasks]_vars

-----------------------------------------------------------------------------
(* ProfileManager and the profile routes (SpecProfiles) *)

\* cleanupOldProfiles(daysOld = 30), and daysOld || 30 in the route.
DefaultDaysOld == 30

\* The ids the profile functions are called with.
ProfileIds == SessionIds \cup {NestedId, DotId}

\* daysOld of a sweep, in days (time is counted in days under SpecProfiles).
SweepDays == {0, 1, DefaultDaysOld}

\* Under SpecProfiles the world also holds the modification time of every
\* directory under the profiles root.
ProfilesWorld ==
    [profilesDir |-> {}, browsers |-> EmptyMap, contexts |-> EmptyMap,
     procs |-> {}, ctxs |-> {}, mtime |-> [d \in {} |-> 0],
     rootRemoved |-> FALSE]

\* The modification times after the directories changed from old to new at
\* time now: a directory is stamped when it is created and when an entry is
\* added to it or removed from it.
stamped(old, new, mtime, now) ==
    [d \in new |->
        IF \/ d \notin old
           \/ \E c \in old \cup new :
                 ParentDir(c) = d /\ ((c \in old) # (c \in new))
        THEN now ELSE mtime[d]]

\* listProfiles: the directories directly under the profiles root.
listProfiles(w) == { d \in w.profilesDir : ParentDir(d) = Null }

\* The sweep with the age test made inclusive.
cleanupOldProfilesInclusive(w, daysOld, now, order, failAt) ==
    LET old == { i \in 1..Len(order) : now - w.mtime[order[i]] >= daysOld }
        done == { i \in old : failAt \notin old \/ i < failAt }
        gone == UNION { rmRecursive(w.profilesDir, order[i]) : i \in done }
    IN  [world |-> [w EXCEPT !.profilesDir = @ \ gone,
                             !.mtime = [d \in w.profilesDir \ gone |-> @[d]]],
         threw |-> IF failAt \in old THEN "rmSync" ELSE "none",
         cleaned |-> Cardinality(done)]

\* cleanupOldProfiles(daysOld): order is the order of readdirSync; every
\* listed profile with now - mtime > threshold is deleted and counted.
\* failAt: the index in order of the profile whose rmSync throws (0: none);
\* the sweep ends there with the error.
cleanupOldProfiles(w, daysOld, now, order, failAt) ==
    LET old == { i \in 1..Len(order) : now - w.mtime[order[i]] > daysOld }
        done == { i \in old : failAt \notin old \/ i < failAt }
        gone == UNION { rmRecursive(w.profilesDir, order[i]) : i \in done }
    IN  [world |-> [w EXCEPT !.profilesDir = @ \ gone,
                             !.mtime = [d \in w.profilesDir \ gone |-> @[d]]],
         threw |-> IF failAt \in old THEN "rmSync" ELSE "none",
         cleaned |-> Cardinality(done)]

\* The orders in which readdirSync can list a set of names.
Orders(names) ==
    { s \in [1..Cardinality(names) -> names] :
        \A i, k \in 1..Cardinality(names) : i # k => s[i] # s[k] }

\* The record of the call that has just ended; again: the call before it
\* was the same call with the same arguments.
Ended(fn, args, threw, result) ==
    [fn |-> fn, args |-> args, returned |-> threw = "none",
     result |-> <<threw, result>>,
     again |-> call.fn = fn /\ call.args = args]

\* profileManager.getProfilePath(id)
GetProfilePath(id) ==
    /\ LET r == getProfilePath(world, id)
       IN  /\ world' = [r.world EXCEPT
                          !.mtime = stamped(world.profilesDir, r.world.profilesDir,
                                            world.mtime, clock)]
           /\ call' = Ended("getProfilePath", <<id>>, r.threw, pathJoin(id))
    /\ UNCHANGED <<proc, exec, jobs, queue, clock>>

\* profileManager.deleteProfile(id), also DELETE /api/profiles/:accountId
DeleteProfile(id) ==
    /\ \E rmOk \in OutcomesIf(pathExists(world, id), BOOLEAN, TRUE) :
         LET r == deleteProfile(world, id, rmOk)
         IN  /\ world' = [r.world EXCEPT
                            !.mtime = stamped(world.profilesDir,
                                              r.world.profilesDir,
                                              world.mtime, clock)]
             /\ call' = Ended("deleteProfile", <<id>>, r.threw, <<>>)
    /\ UNCHANGED <<proc, exec, jobs, queue, clock>>

\* browserManager.takeScreenshot(page, id, name) of a running job.
Screenshot ==
    /\ \E outcome \in ScreenshotOutcomes :
         LET w == takeScreenshot(world, outcome)
         IN  /\ world' = [w EXCEPT
                            !.mtime = stamped(world.profilesDir, w.profilesDir,
                                              world.mtime, clock)]
             /\ call' = Ended("takeScreenshot", <<>>, "none", <<outcome>>)
    /\ UNCHANGED <<proc, exec, jobs, queue, clock>>

\* profileManager.cleanupOldProfiles(daysOld) called directly.
CleanupOldProfiles(daysOld) ==
    /\ \E order \in Orders(listProfiles(world)) :
       \E failAt \in 0..Len(order) :
         LET r == cleanupOldProfiles(world, daysOld, clock, order, failAt)
         IN  /\ world' = r.world
             /\ call' = Ended("cleanupOldProfiles", <<daysOld>>, r.threw,
                              <<r.cleaned>>)
    /\ UNCHANGED <<proc, exec, jobs, queue, clock>>

\* POST /api/profiles/cleanup with {daysOld} in the body (sent = FALSE: the
\* body has no daysOld): cleanupOldProfiles(daysOld || 30).
PostCleanup(sent, daysOld) ==
    /\ \E order \in Orders(listProfiles(world)) :
       \E failAt \in 0..Len(order) :
         LET days == IF sent /\ daysOld # 0 THEN daysOld ELSE DefaultDaysOld
             r == cleanupOldProfiles(world, days, clock, order, failAt)
         IN  /\ world' = r.world
             /\ call' = Ended("POST /api/profiles/cleanup", <<sent, daysOld>>,
                              r.threw, <<r.cleaned>>)
    /\ UNCHANGED <<proc, exec, jobs, queue, clock>>

InitProfiles ==
    /\ world = ProfilesWorld
    /\ exec = [w \in JobSlots |-> IdleExec]
    /\ jobs = 0
    /\ queue = {}
    /\ clock = 0
    /\ proc = InitProc
    /\ call = NoCall

NextProfiles ==
    \/ \E id \in ProfileIds : GetProfilePath(id)
    \/ \E id \in ProfileIds : DeleteProfile(id)
    \/ \E daysOld \in SweepDays : CleanupOldProfiles(daysOld)
    \/ \E sent \in BOOLEAN, daysOld \in SweepDays : PostCleanup(sent, daysOld)
    \/ Screenshot
    \/ Tick

SpecProfiles == InitProfiles /\ [][NextProfiles]_vars

-----------------------------------------------------------------------------
(* Properties of processJob (Spec) *)

\* C1: when processJob has ended for a job that carries a sessionId, whether
\* it returned or threw, the profile directory of the session no longer
\* exists and neither registry map of the browser manager holds the session.
C1_SessionGoneAfterJob ==
    \A w \in DOMAIN exec :
        (exec[w].pc = "done" /\ Truthy(exec[w].job.sessionId)) =>
            /\ exec[w].job.sessionId \notin world.profilesDir
            /\ exec[w].job.sessionId \notin DOMAIN world.browsers
            /\ exec[w].job.sessionId \notin DOMAIN world.contexts

\* C2: processJob calls deleteProfile(sessionId) only once the browser and
\* the context of the session have been closed: no profile is deleted while
\* the session is still open.
C2_CloseBeforeDelete ==
    [][\A w \in DOMAIN exec :
          (/\ Len(exec'[w].log) = Len(exec[w].log) + 1
           /\ exec'[w].log[Len(exec'[w].log)] = "deleteProfile")
          => ~SessionOpen(world, exec[w].job.sessionId)]_vars

\* C5: processJob takes the specialized checkout path exactly when the URL
\* contains the marker or the checkout element is on the page, and the
\* generic path otherwise.
C5_PathMatchesPage ==
    \A w \in DOMAIN exec :
        exec[w].path # "none" =>
            (exec[w].path = "special"
                <=> (exec[w].job.cartpandaUrl \/ exec[w].elem))

\* C6: on a page that is not a checkout page (no marker, no checkout element)
\* and shows a reCAPTCHA widget, processJob touches no field, produces no
\* FillResult, clicks no submit button, and ends by throwing; unless a
\* broker call or the widget query has failed, the error is the CAPTCHA error.
C6_CaptchaPageIsNotFilled ==
    \A w \in DOMAIN exec :
        (/\ exec[w].path # "none"
         /\ exec[w].captcha
         /\ ~exec[w].job.cartpandaUrl
         /\ ~exec[w].elem)
        => /\ exec[w].typed = <<>>
           /\ exec[w].fieldCalls = <<>>
           /\ ~exec[w].fillResults.made
           /\ ~exec[w].clicked
           /\ (exec[w].pc = "done" => exec[w].outcome = "thrown")
           /\ exec[w].firstError \in {"none", "updateProgress", "locator", "captcha"}

\* The steps of the browser-driving sequence of the try block.
TrySteps ==
    {"launchBrowser", "goto", "detect", "checkIfBlocked", "fillCheckoutForm",
     "submitCheckout", "verifyCheckoutSuccess", "detectCaptcha", "fillForm",
     "submitForm", "verifySubmission"}

\* C7: an error thrown inside the try block is the error processJob ends
\* with, whatever the error screenshot, closeBrowser and the guarded
\* deleteProfile do; once an error is thrown only the catch and the finally
\* run, and no step of the sequence runs twice in one execution.
C7_FirstErrorPropagates ==
    \A w \in DOMAIN exec :
        LET e == exec[w]
        IN  /\ (e.pc = "done" /\ e.firstError # "none")
                  => (e.outcome = "thrown" /\ e.error = e.firstError)
            /\ e.firstError # "none"
                  => e.pc \in {"catch", "finallyClose", "finallyDelete", "done"}
            /\ \A i, j \in 1..Len(e.log) :
                  (i < j /\ e.log[i] \in TrySteps) => e.log[j] # e.log[i]
            /\ \A i, j \in 1..Len(e.log) :
                  (i < j /\ e.log[i] = "catch")
                     => e.log[j] \in {"closeBrowser", "deleteProfile"}

\* A job has thrown after its page was opened; the error screenshot was not
\* saved, closeBrowser left the session registered and the profile directory
\* could not be removed.
C7_Witness ==
    \E w \in DOMAIN exec :
        /\ exec[w].pc = "done"
        /\ exec[w].outcome = "thrown"
        /\ exec[w].firstError # "none"
        /\ exec[w].hasPage
        /\ ScreenshotsDir \notin world.profilesDir
        /\ exec[w].job.sessionId \in DOMAIN world.browsers
        /\ exec[w].job.sessionId \in world.profilesDir

\* C8: when the verification ended with an explicit decline (the error
\* result of either verifier) or with the timeout, processJob does not throw:
\* it returns a result whose success is false, so the job completes.
C8_DeclineOrTimeoutReturns ==
    \A w \in DOMAIN exec :
        (/\ exec[w].pc = "done"
         /\ exec[w].verification.made
         /\ exec[w].verification.method
               \in {"cartpanda_error_detection", "timeout", "error"})
        => /\ exec[w].outcome = "returned"
           /\ ~exec[w].verification.success

\* C9: verifyCheckoutSuccess always returns (FairCheckout).  A poll is made only
\* while the budget of MaxWaitTime is not used up, and a poll that matches
\* nothing uses up at least PollInterval of it; the function returns method
\* 'timeout' exactly when it finds the budget used up, and then with success
\* false.
C9_VerifyEndsWithTimeout ==
    /\ \A w \in JobSlots :
          (exec[w].pc = "verifyCheckout") ~> (exec[w].pc = "p95")
    /\ [][\A w \in DOMAIN exec :
             LET e == exec[w]
                 e2 == exec'[w]
             IN  (e.pc = "verifyCheckout" /\ e2 # e) =>
                    /\ e2.pc \in {"verifyCheckout", "p95"}
                    /\ e2.pc = "verifyCheckout" =>
                          /\ e.elapsed < MaxWaitTime
                          /\ e2.elapsed >= e.elapsed + PollInterval
                    /\ e2.pc = "p95" =>
                          /\ e2.verification.made
                          /\ (e2.verification.method = "timeout")
                                <=> (e.elapsed >= MaxWaitTime)
                          /\ (e2.verification.method = "timeout")
                                => ~e2.verification.success]_vars

\* verifyCheckoutSuccess has returned the timeout result.
C9_Witness ==
    \E w \in DOMAIN exec :
        /\ exec[w].verification.made
        /\ exec[w].verification.method = "timeout"
        /\ exec[w].poll = NoPoll

\* C10: the first poll in which an indicator matches ends the loop in that
\* poll: a success indicator gives the success result (also when an error
\* indicator matches too), an error indicator without a success indicator
\* gives the decline result with success false, and only a poll that matches
\* nothing goes on to the next one.
C10_FirstMatchEndsLoop ==
    [][\A w \in DOMAIN exec :
          LET e == exec[w]
              e2 == exec'[w]
          IN  (e.pc = "verifyCheckout" /\ e2 # e /\ e.elapsed < MaxWaitTime) =>
                 /\ e2.poll.succ =>
                       /\ e2.pc = "p95"
                       /\ e2.verification =
                            [made |-> TRUE, success |-> TRUE,
                             method |-> "cartpanda_success_detection"]
                 /\ (e2.poll.decl /\ ~e2.poll.succ) =>
                       /\ e2.pc = "p95"
                       /\ e2.verification =
                            [made |-> TRUE, success |-> FALSE,
                             method |-> "cartpanda_error_detection"]
                 /\ (~e2.poll.succ /\ ~e2.poll.decl) =>
                       e2.pc = "verifyCheckout"]_vars

\* verifyCheckoutSuccess has returned the decline result from a poll made
\* within the budget.
C10_Witness ==
    \E w \in DOMAIN exec :
        /\ exec[w].verification.method = "cartpanda_error_detection"
        /\ exec[w].poll.decl
        /\ ~exec[w].poll.succ

\* The place of each step in the sequence of one job.
StepRank(step) ==
    CASE step = "launchBrowser" -> 1
      [] step = "goto" -> 2
      [] step = "detect" -> 3
      [] step \in {"checkIfBlocked", "detectCaptcha"} -> 4
      [] step \in {"fillCheckoutForm", "fillForm"} -> 5
      [] step \in {"submitCheckout", "submitForm"} -> 6
      [] step \in {"verifyCheckoutSuccess", "verifySubmission"} -> 7
      [] OTHER -> 8

\* C11: within one job the steps run one after the other in the order
\* launch, navigation, detection, filling, submit click, verification: a
\* step starts only when every earlier one has completed, so a field is
\* typed only after detection, the click follows the completed filling and
\* the verification follows the click.
C11_StepsInSequence ==
    \A w \in DOMAIN exec :
        LET e == exec[w]
            Ran(step) == \E i \in 1..Len(e.log) : e.log[i] = step
        IN  /\ \A i, j \in 1..Len(e.log) :
                  (i < j /\ e.log[i] \in TrySteps /\ e.log[j] \in TrySteps)
                     => StepRank(e.log[i]) < StepRank(e.log[j])
            /\ \A j \in 1..Len(e.log) :
                  (e.log[j] \in TrySteps /\ StepRank(e.log[j]) > 1)
                     => \E i \in 1..(j - 1) :
                           StepRank(e.log[i]) = StepRank(e.log[j]) - 1
            /\ e.hasPage <=> (e.browser # NoHandle)
            /\ (e.path # "none") <=> Ran("detect")
            /\ (e.typed # <<>> \/ e.fillResults.made)
                  => (e.path # "none" /\ Ran("goto"))
            /\ e.clicked => e.fillResults.made
            /\ e.verification.made => e.clicked

\* A job has run the whole generic sequence up to the verification.
C11_Witness ==
    \E w \in DOMAIN exec :
        /\ exec[w].verification.made
        /\ exec[w].log = <<"launchBrowser", "goto", "detect", "detectCaptcha",
                           "fillForm", "submitForm", "verifySubmission">>

-----------------------------------------------------------------------------
(* Properties of the shutdown (SpecShutdown) *)

\* C12: the worker process exits only when shutdown has run to its end: no
\* job is in flight and no browser session is left in the registry or open.
C12_ExitAfterSessionsClosed ==
    proc.pc = "exited" =>
        /\ \A w \in DOMAIN exec : exec[w].pc \in {"idle", "done"}
        /\ DOMAIN world.browsers = {}
        /\ DOMAIN world.contexts = {}
        /\ \A sid \in SessionIds : ~SessionOpen(world, sid)

-----------------------------------------------------------------------------
(* Properties of the queue (SpecQueue) *)

\* A slot is running processJob.
Active(w) == exec[w].pc \notin {"idle", "done"}

C4_EveryTaskHasSessionId ==
    \A j \in queue :
        /\ Truthy(j.data.sessionId)
        /\ \A k \in queue : k # j => k.data.sessionId # j.data.sessionId

-----------------------------------------------------------------------------
(* Properties of the field functions (SpecFields) *)

\* The key is, letter case apart, a part of the string.
PartIgnoringCase(key, str) ==
    \E off \in 0..(Len(str) - Len(key)) :
        \A i \in 1..Len(key) : LowerChar(key[i]) = LowerChar(str[off + i])

\* C14: getValueForField returns the value of the formData key equal to the
\* field's name if there is one, else of the key equal to its id, else of
\* the key equal to its purpose, else of the first key, in the order of the
\* formData, that is a case-insensitive part of the field's name-or-id, and
\* null when there is none: an exact name or id match wins over every key
\* that matches by purpose or as a part.
C14_TierPriority ==
    (call.fn = "getValueForField" /\ call.returned) =>
        LET field == call.args[1]
            fd == call.args[2]
            r == call.result[1]
            Has(k) == k # <<>> /\ \E i \in 1..Len(fd) : fd[i].key = k
            ValueIs(k) == \E i \in 1..Len(fd) : fd[i].key = k /\ fd[i].value = r
            nameOrId == IF field.name # <<>> THEN field.name ELSE field.id
            Part(i) == PartIgnoringCase(fd[i].key, nameOrId)
        IN  /\ Has(field.name) => ValueIs(field.name)
            /\ (~Has(field.name) /\ Has(field.id)) => ValueIs(field.id)
            /\ (~Has(field.name) /\ ~Has(field.id) /\ Has(field.purpose))
                  => ValueIs(field.purpose)
            /\ (~Has(field.name) /\ ~Has(field.id) /\ ~Has(field.purpose))
                  => IF \E i \in 1..Len(fd) : Part(i)
                     THEN \E i \in 1..Len(fd) :
                             /\ Part(i)
                             /\ \A k \in 1..(i - 1) : ~Part(k)
                             /\ fd[i].value = r
                     ELSE r = Null

\* A call has returned the value of the key equal to the field's name while
\* an earlier key of the formData, with another value, matches the field by
\* purpose or as a part of its name.
C14_Witness ==
    /\ call.fn = "getValueForField"
    /\ call.returned
    /\ LET field == call.args[1]
           fd == call.args[2]
       IN  \E i, k \in 1..Len(fd) :
              /\ i < k
              /\ fd[k].key = field.name
              /\ fd[k].value = call.result[1]
              /\ fd[i].value # fd[k].value
              /\ \/ fd[i].key = field.purpose
                 \/ PartIgnoringCase(fd[i].key, field.name)

\* The rules of the classification in their order: a rule matches an element
\* when its attributes mention one of the words (and none of `without`), or
\* its type or tag is one of those listed.
PurposeRules ==
    << [purpose |-> "email",
           words |-> {<<"e", "m", "a", "i", "l">>},
           types |-> {"email"},
           without |-> {},
           tags |-> {}],
           [purpose |-> "firstName",
           words |-> {<<"f", "i", "r", "s", "t", "n", "a", "m", "e">>, <<"f", "i", "r", "s", "t", "-", "n", "a", "m", "e">>, <<"f", "n", "a", "m", "e">>},
           types |-> {},
           without |-> {},
           tags |-> {}],
           [purpose |-> "lastName",
           words |-> {<<"l", "a", "s", "t", "n", "a", "m", "e">>, <<"l", "a", "s", "t", "-", "n", "a", "m", "e">>, <<"l", "n", "a", "m", "e">>},
           types |-> {},
           without |-> {},
           tags |-> {}],
           [purpose |-> "fullName",
           words |-> {<<"n", "a", "m", "e">>},
           types |-> {},
           without |-> {<<"u", "s", "e", "r">>},
           tags |-> {}],
           [purpose |-> "phone",
           words |-> {<<"p", "h", "o", "n", "e">>, <<"t", "e", "l">>},
           types |-> {"tel"},
           without |-> {},
           tags |-> {}],
           [purpose |-> "address",
           words |-> {<<"a", "d", "d", "r", "e", "s", "s">>},
           types |-> {},
           without |-> {},
           tags |-> {}],
           [purpose |-> "city",
           words |-> {<<"c", "i", "t", "y">>},
           types |-> {},
           without |-> {},
           tags |-> {}],
           [purpose |-> "state",
           words |-> {<<"s", "t", "a", "t", "e">>, <<"p", "r", "o", "v", "i", "n", "c", "e">>},
           types |-> {},
           without |-> {},
           tags |-> {}],
           [purpose |-> "zip",
           words |-> {<<"z", "i", "p">>, <<"p", "o", "s", "t", "a", "l">>},
           types |-> {},
           without |-> {},
           tags |-> {}],
           [purpose |-> "country",
           words |-> {<<"c", "o", "u", "n", "t", "r", "y">>},
           types |-> {},
           without |-> {},
           tags |-> {}],
           [purpose |-> "date",
           words |-> {<<"d", "a", "t", "e">>, <<"d", "o", "b">>},
           types |-> {"date"},
           without |-> {},
           tags |-> {}],
           [purpose |-> "url",
           words |-> {<<"w", "e", "b", "s", "i", "t", "e">>, <<"u", "r", "l">>},
           types |-> {"url"},
           without |-> {},
           tags |-> {}],
           [purpose |-> "message",
           words |-> {<<"m", "e", "s", "s", "a", "g", "e">>, <<"c", "o", "m", "m", "e", "n", "t">>},
           types |-> {},
           without |-> {},
           tags |-> {"TEXTAREA"}] >>

\* The attributes of the element, joined, contain the word (case ignored).
Mentions(element, word) ==
    PartIgnoringCase(word,
        JoinWords(<<element.name, element.id, element.placeholder,
                    element.className, element.ariaLabel, element.autocomplete>>))

RuleMatches(rule, element) ==
    \/ /\ \E word \in rule.words : Mentions(element, word)
       /\ \A word \in rule.without : ~Mentions(element, word)
    \/ element.type \in rule.types
    \/ element.tagName \in rule.tags

\* C15: inferFieldPurpose returns the purpose of the first rule that matches
\* in the order email, firstName, lastName, fullName, phone, address, city,
\* state, zip, country, date, url, message, and 'text' when none matches;
\* attributes that mention both 'email' and 'name' classify as email.
C15_FirstRuleWins ==
    (call.fn = "inferFieldPurpose" /\ call.returned) =>
        LET element == call.args[1]
            r == call.result[1]
            Hit(i) == RuleMatches(PurposeRules[i], element)
        IN  /\ IF \E i \in 1..Len(PurposeRules) : Hit(i)
               THEN \E i \in 1..Len(PurposeRules) :
                       /\ Hit(i)
                       /\ \A k \in 1..(i - 1) : ~Hit(k)
                       /\ r = PurposeRules[i].purpose
               ELSE r = "text"
            /\ (Mentions(element, <<"e", "m", "a", "i", "l">>) /\ Mentions(element, <<"n", "a", "m", "e">>))
                  => r = "email"

\* A call on attributes that mention both 'email' and 'name' (and no
\* 'user') has returned.
C15_Witness ==
    /\ call.fn = "inferFieldPurpose"
    /\ call.returned
    /\ Mentions(call.args[1], <<"e", "m", "a", "i", "l">>)
    /\ Mentions(call.args[1], <<"n", "a", "m", "e">>)
    /\ ~Mentions(call.args[1], <<"u", "s", "e", "r">>)
    /\ call.args[1].type = "text"
    /\ call.result[1] = "email"

\* The checks of verifySubmission, in the order the claim lists them.
CheckOrder == <<"url", "message", "element", "keyword", "error">>

CheckMatches(check, page, ind) ==
    CASE check = "url" ->
           ind.successUrl # <<>> /\ includes(page.url, ind.successUrl)
      [] check = "message" ->
           ind.successMessage # <<>> /\ includes(page.content, ind.successMessage)
      [] check = "element" ->
           ind.successSelector # <<>> /\ page.count > 0
      [] check = "keyword" ->
           \E i \in 1..Len(successKeywords) :
               PartIgnoringCase(successKeywords[i], page.content)
      [] check = "error" ->
           \E i \in 1..Len(errorKeywords) :
               PartIgnoringCase(errorKeywords[i], page.content)

\* The first check of the order that matches, null when none does.
FirstCheck(page, ind) ==
    IF \E i \in 1..Len(CheckOrder) : CheckMatches(CheckOrder[i], page, ind)
    THEN CheckOrder[CHOOSE i \in 1..Len(CheckOrder) :
                      /\ CheckMatches(CheckOrder[i], page, ind)
                      /\ \A k \in 1..(i - 1) :
                             ~CheckMatches(CheckOrder[k], page, ind)]
    ELSE Null

VerifyReturned == call.fn = "verifySubmission" /\ call.returned

\* C16, as stated: verifySubmission reports the first check that matches in
\* the order url, message, element, keyword, error (success exactly for the
\* first four), whatever the page does.
C16_FirstCheckWins ==
    VerifyReturned =>
        /\ call.result[1].method = FirstCheck(call.args[1], call.args[2])
        /\ call.result[1].success =
               (call.result[1].method \in {"url", "message", "element", "keyword"})

\* C16, amended: while every page read resolves verifySubmission reports the
\* first check that matches in the order url, message, element, keyword,
\* error; a page matching a success and an error keyword is a success; a URL
\* containing the configured successUrl gives {success: true, method: 'url'}
\* whatever the content and whatever read would reject; and when a page read
\* rejects before a check has matched, the report is {success: false,
\* method: 'error'} with the message of the rejection.
C16_FirstCheckWinsWhenReadsResolve ==
    VerifyReturned =>
        LET page == call.args[1]
            ind == call.args[2]
            res == call.result[1]
        IN  /\ res.method \in {"url", "message", "element", "keyword", "error", Null}
            /\ res.success = (res.method \in {"url", "message", "element", "keyword"})
            /\ page.failing = "none" => res.method = FirstCheck(page, ind)
            /\ CheckMatches("url", page, ind) =>
                   res.success /\ res.method = "url"
            /\ ( /\ page.failing = "none"
                 /\ FirstCheck(page, ind) \notin {"url", "message", "element"}
                 /\ CheckMatches("keyword", page, ind)
                 /\ CheckMatches("error", page, ind) ) =>
                   res.success /\ res.method = "keyword"
            /\ res.method # FirstCheck(page, ind) =>
                   /\ page.failing # "none"
                   /\ res = VerifyResult(FALSE, "error", PageReadError)

\* A page with a success keyword and an error keyword, and no configured
\* indicator that matches, was reported as a keyword success.
C16_Witness ==
    /\ VerifyReturned
    /\ call.args[1].failing = "none"
    /\ ~CheckMatches("url", call.args[1], call.args[2])
    /\ ~CheckMatches("message", call.args[1], call.args[2])
    /\ ~CheckMatches("element", call.args[1], call.args[2])
    /\ CheckMatches("keyword", call.args[1], call.args[2])
    /\ CheckMatches("error", call.args[1], call.args[2])
    /\ call.result[1].method = "keyword"

\* The hosts of ProxyServers with a two-letter subdomain.
TwoLetterSubdomainHosts == {SubdomainServerUs, SubdomainServerBe}

\* The username the claim gives for a session.
ClaimedUsername(proxy, sid) ==
    IF proxy.decodServer \in TwoLetterSubdomainHosts
    THEN proxy.username
    ELSE proxy.username
         \o (IF proxy.country = "" THEN <<>> ELSE <<"-country-", proxy.country>>)
         \o (IF proxy.state = "" THEN <<>> ELSE <<"-state-", proxy.state>>)
         \o (IF proxy.city = "" THEN <<>> ELSE <<"-city-", proxy.city>>)
         \o <<"-session-", sid>>

C18_UsernamePerSession ==
    [][ world'.proxy.enabled =>
          /\ \A h, g \in DOMAIN world'.ctxProxy :
                 ( /\ world'.ctxProxy[h].httpCredentials
                   /\ world'.ctxProxy[g].httpCredentials
                   /\ world'.ctxProxy[h].accountId # world'.ctxProxy[g].accountId )
                     => world'.ctxProxy[h].username # world'.ctxProxy[g].username
          /\ \A h \in DOMAIN world.ctxProxy \cap DOMAIN world'.ctxProxy :
                 world'.ctxProxy[h] = world.ctxProxy[h] ]_vars

C20_FieldFailureDoesNotAbort ==
    (call.fn = "fillForm" /\ call.returned /\ call.args[3]) =>
        LET elements == call.args[1]
            fd == call.args[2]
            outcomes == call.args[4]
            r == call.result[1]
            Listed(name) ==
                \/ \E k \in 1..Len(r.results.filled) : r.results.filled[k].field = name
                \/ \E k \in 1..Len(r.results.failed) : r.results.failed[k].field = name
                \/ \E k \in 1..Len(r.results.skipped) : r.results.skipped[k].field = name
        IN  \A i \in 1..Len(elements) :
                ( /\ ~elements[i].skipped
                  /\ outcomes[FieldIndex(elements, i)] = "fails"
                  /\ formDataGet(fd, elements[i].name) \notin {Undefined, Null} )
                => /\ r.threw = "none"
                   /\ \E k \in 1..Len(r.results.failed) :
                          r.results.failed[k] =
                              [field |-> elements[i].name, error |-> "fillField"]
                   /\ \A j \in (i + 1)..Len(elements) :
                          ~elements[j].skipped => Listed(ElementLabel(elements, j))

\* The last fillField call of the execution threw.
FieldFailed(e) ==
    /\ e.fieldCalls # <<>>
    /\ e.fieldCalls[Len(e.fieldCalls)].did # FillFieldSteps

\* C21: in fillCheckoutForm a rejected click on .check-out-left or on
\* .check-out-row-outr is logged and is not an error (only the block check
\* and a field that cannot be filled abort the form), the fields after the
\* click are still filled, whereas the first supplied field that cannot be
\* filled aborts the form: the error is thrown, the job fails, no later field
\* is filled and the submit button is not clicked.
C21_ClicksBestEffortFieldsFatal ==
    [][\A w \in DOMAIN exec :
          LET e == exec[w]
              e2 == exec'[w]
              fields == SuppliedFields(e.job.formData)
              IsPrefix(s, t) == Len(s) <= Len(t) /\ s = SubSeq(t, 1, Len(s))
          IN  /\ (e.pc = "fillCheckout" /\ e2 # e) =>
                    /\ (e2.error # "none") =>
                          (e2.error = "blocked" \/ FieldFailed(e2))
                    /\ (e2.error = "none") =>
                          /\ e2.typed = fields
                          /\ e2.fillResults.made
                          /\ e2.pc = "p70s"
                    /\ FieldFailed(e2) =>
                          /\ e2.pc = "catch"
                          /\ IsPrefix(e2.typed, fields)
                          /\ Len(e2.typed) = Len(e2.fieldCalls) - 1
              /\ (FieldFailed(e) /\ e.pc # "done") =>
                    /\ e2.typed = e.typed
                    /\ ~e2.clicked
                    /\ e2.error = e.error
                    /\ e2.outcome \in {"none", "thrown"}]_vars

-----------------------------------------------------------------------------
(* Properties of the profile store (SpecProfiles) *)

\* C22: for every id, right after getProfilePath(id) the list of profiles
\* includes id, and right after deleteProfile(id) it does not; a second
\* getProfilePath(id) returns the same path and creates nothing.
C22_ProfileRoundTrip ==
    [][ /\ (call'.fn = "getProfilePath" /\ call'.returned) =>
              /\ call'.args[1] \in listProfiles(world')
              /\ call'.result[2] = pathJoin(call'.args[1])
              /\ call'.args[1] \in world.profilesDir =>
                    world'.profilesDir = world.profilesDir
        /\ (call'.fn = "deleteProfile" /\ call'.returned) =>
              call'.args[1] \notin listProfiles(world') ]_vars

\* C23: deleteProfile(id) for an id that has no directory, and a second
\* deleteProfile(id) right after one that returned, does not throw and leaves
\* the profiles as they are.
C23_DeleteIdempotent ==
    [][ call'.fn = "deleteProfile" =>
          /\ ~pathExists(world, call'.args[1]) =>
                /\ call'.returned
                /\ world'.profilesDir = world.profilesDir
          /\ (call.fn = "deleteProfile" /\ call.returned /\ call'.again) =>
                /\ call'.returned
                /\ world'.profilesDir = world.profilesDir ]_vars

\* deleteProfile has returned a second time in a row for the same id.
C23_Witness ==
    /\ call.fn = "deleteProfile"
    /\ call.again
    /\ call.returned

\* C24: a sweep asked for with 0 days, directly or through POST
\* /api/profiles/cleanup with daysOld 0, deletes every profile and returns
\* their number; in general a sweep deletes exactly the profiles whose
\* modification time is older than now minus the days asked for (none when
\* the threshold exceeds every age) and returns their number.
C24_SweepDeletesOld ==
    [][ ( /\ call'.fn \in {"cleanupOldProfiles", "POST /api/profiles/cleanup"}
          /\ call'.returned
          /\ <<call', world'>> # <<call, world>> ) =>
          LET direct == call'.fn = "cleanupOldProfiles"
              asked == IF direct THEN call'.args[1]
                       ELSE IF call'.args[1] THEN call'.args[2]
                       ELSE DefaultDaysOld
              older == { d \in listProfiles(world) :
                           clock - world.mtime[d] > asked }
              expected == IF asked = 0 THEN listProfiles(world) ELSE older
          IN  /\ listProfiles(world') = listProfiles(world) \ expected
              /\ call'.result[2] = <<Cardinality(expected)>> ]_vars

-----------------------------------------------------------------------------
(* Properties of the browser registry (SpecProxy) *)

\* The browser and the context registered under sid.
Registered(w, sid) ==
    <<MapGet(w.browsers, sid), MapGet(w.contexts, sid)>>

\* C25: closeBrowser(sid) closes the context and the browser of the session
\* and removes both from the registry, without throwing, whatever the
\* teardown steps do; for an id with nothing registered it leaves the
\* registry as it is.
C25_CloseRemovesSession ==
    [][ call'.fn = "closeBrowser" =>
          LET sid == call'.args[1]
          IN  /\ call'.returned
              /\ Registered(world', sid) = <<NoHandle, NoHandle>>
              /\ MapGet(world.browsers, sid) \notin world'.procs
              /\ MapGet(world.contexts, sid) \notin world'.ctxs
              /\ \A other \in SessionIds \ {sid} :
                    Registered(world', other) = Registered(world, other)
              /\ Registered(world, sid) = <<NoHandle, NoHandle>> =>
                    /\ world'.browsers = world.browsers
                    /\ world'.contexts = world.contexts ]_vars

\* C30: every browser process that launchBrowser started and that is still
\* running is registered under a session id, whether launchBrowser returned
\* or threw and whatever was registered before.
C30_NoUnregisteredBrowser ==
    \A h \in world.procs :
        \E sid \in DOMAIN world.browsers : world.browsers[sid] = h

-----------------------------------------------------------------------------
(* Properties of the priority of a task (SpecQueue) *)

\* C26: a waiting task is handed to a worker only when no other waiting task
\* was submitted with a numerically higher priority; a task submitted without
\* a priority has priority 1; the data processJob works on carries no
\* priority.
C26_HigherPriorityFirst ==
    [][ /\ \A j \in queue :
             ( /\ j.state = "waiting"
               /\ j \notin queue'
               /\ [j EXCEPT !.state = "active"] \in queue' ) =>
                 \A k \in queue : k.state = "waiting" => k.priority <= j.priority
        /\ \A j \in queue' :
             /\ j.asked = <<>> => j.priority = 1
             /\ j.asked # <<>> => j.priority = j.asked[1]
        /\ \A w \in QueueSlots : "priority" \notin DOMAIN exec'[w].job ]_vars

-----------------------------------------------------------------------------
(* Properties of the progress reports (Spec) *)

\* The values of the job.updateProgress calls of processJob, in the order of
\* the calls.
ProgressStages == <<10, 20, 30, 40, 70, 85, 95, 100>>

Reported(e, n) == \E i \in 1..Len(e.progress) : e.progress[i] = n

Ran(e, steps) == \E i \in 1..Len(e.log) : e.log[i] \in steps

\* C27: the progress values one execution of processJob has reported are the
\* first values of 10, 20, 30, 40, 70, 85, 95, 100, each after the stage it
\* stands for; and an execution that has reported 100 does not throw.
C27_ProgressFollowsStages ==
    \A w \in DOMAIN exec :
        LET e == exec[w]
        IN  /\ Len(e.progress) <= Len(ProgressStages)
            /\ e.progress = SubSeq(ProgressStages, 1, Len(e.progress))
            /\ Reported(e, 20) => Ran(e, {"launchBrowser"})
            /\ Reported(e, 30) => Ran(e, {"goto"})
            /\ Reported(e, 40) => /\ Ran(e, {"detect"})
                                  /\ Ran(e, {"checkIfBlocked", "detectCaptcha"})
            /\ Reported(e, 70) => Ran(e, {"fillCheckoutForm", "fillForm"})
            /\ Reported(e, 85) => Ran(e, {"submitCheckout", "submitForm"})
            /\ Reported(e, 95) =>
                  Ran(e, {"verifyCheckoutSuccess", "verifySubmission"})
            /\ Reported(e, 100) =>
                  /\ e.firstError = "none"
                  /\ e.pc = "done" => e.outcome = "returned"

\* C29: an execution of processJob that has clicked the submit button does
\* not throw afterwards, so the broker has no failed attempt to run again
\* and the button is clicked once for the task.
C29_NoThrowAfterSubmit ==
    \A w \in DOMAIN exec :
        exec[w].clicked =>
            /\ exec[w].firstError = "none"
            /\ exec[w].pc = "done" => exec[w].outcome = "returned"

-----------------------------------------------------------------------------
(* Properties of the API key check (SpecApi) *)

\* The request carries key in X-API-Key or as a Bearer token.
CarriesKey(req, key) ==
    \/ req.xApiKey = key
    \/ req.authorization = <<BearerPrefix>> \o key

\* A route handler under /api has been entered for the request.
ReachedApiHandler ==
    /\ call.fn = "request"
    /\ call.returned
    /\ call.result[1].by = "route"
    /\ call.args[1].path[1] = "api"

-----------------------------------------------------------------------------
(* Properties of closeAll (SpecShutdown) *)

\* C31: the two registry maps always have the same keys; closeAll goes
\* through every key it started with, whatever the close calls do; and when
\* closeAll has returned both maps are empty.
C31_CloseAllEmptiesRegistry ==
    [][ /\ DOMAIN world'.browsers = DOMAIN world'.contexts
        /\ (proc.pc = "closeAll" /\ proc'.pc = "exited") => proc.pending = {}
        /\ (proc'.pc = "exited" /\ proc'.exitCode = 0) =>
              /\ DOMAIN world'.browsers = {}
              /\ DOMAIN world'.contexts = {} ]_vars

-----------------------------------------------------------------------------
(* Properties of the field detection and of the FillResult (SpecFields) *)

\* fillForm has ended on a page whose page.evaluate works.
FillFormEnded ==
    /\ call.fn = "fillForm"
    /\ call.returned
    /\ call.args[3]

\* C32: fillForm returns a FillResult whose three lists together have one
\* entry for every field of the page, and whose skipped list has one entry
\* for every field getValueForField finds no value for, and no other.
C32_FillResultPartitionsFields ==
    FillFormEnded =>
        LET elements == call.args[1]
            fd == call.args[2]
            r == call.result[1]
            NoValue == { i \in Eligible(elements) :
                           getValueForField([name |-> elements[i].name,
                                             id |-> elements[i].id,
                                             purpose |-> <<>>], fd)
                              \in {Null, Undefined} }
        IN  /\ r.threw = "none"
            /\ Len(r.results.filled) + Len(r.results.failed)
                  + Len(r.results.skipped) = Cardinality(Eligible(elements))
            /\ Len(r.results.skipped) = Cardinality(NoValue)
            /\ \A i \in NoValue :
                  \E k \in 1..Len(r.results.skipped) :
                      r.results.skipped[k].field = ElementLabel(elements, i)

\* C33: detectFormFields returns one field for every element of the page
\* that is a field, in document order, and the selector of each field, taken
\* at its first match, is the element the field was made from.
C33_SelectorDenotesElement ==
    FillFormEnded =>
        LET elements == call.args[1]
            d == detectFormFields(elements, TRUE)
        IN  /\ call.result[1].threw # "TypeError"
            /\ d.threw = "none"
            /\ Len(d.fields) = Cardinality(Eligible(elements))
            /\ \A k \in 1..Len(d.fields) :
                  firstMatch(elements, d.fields[k].selector)
                     = EligibleAt(elements, k)

\* C34: a deleteProfile(id) that changes anything removes the directory of
\* id and nothing else: every other directory under the profiles root is
\* still there, and so is the root.
C34_DeleteRemovesOnlyItsDirectory ==
    [][ call'.fn = "deleteProfile" =>
          /\ (world.profilesDir \ {call'.args[1]}) \subseteq world'.profilesDir
          /\ RootRemoved(world') => RootRemoved(world) ]_vars

\* C35: the screenshots directory is never listed as a profile, and a sweep
\* never removes it.
C35_ScreenshotsIsNoProfile ==
    [][ /\ ScreenshotsDir \notin listProfiles(world')
        /\ ( /\ call'.fn \in {"cleanupOldProfiles", "POST /api/profiles/cleanup"}
             /\ ScreenshotsDir \in world.profilesDir ) =>
               ScreenshotsDir \in world'.profilesDir ]_vars

-----------------------------------------------------------------------------
(* Properties of the checkout handler (SpecCheckout) *)

\* C36: a fillCheckoutForm on a page that is not blocked, where no page call
\* of a field is rejected and both clicks resolve, returns a FillResult; the
\* fields it fills are the supplied ones (a value under one of the accepted
\* keys, the cardholder name falling back to the full name) in the order
\* email, full name, phone, card number, cardholder name, expiry, CVC; each is
\* filled by wait, click, clear, type with the value of the first accepted
\* key; and the filled list names exactly these fields.
C36_CheckoutFillsSuppliedFields ==
    [][\A w \in DOMAIN exec :
          LET e == exec[w]
              e2 == exec'[w]
              fd == e.job.formData
              fields == SuppliedFields(fd)
              calls == e2.fieldCalls
          IN  (/\ e.pc = "fillCheckout"
               /\ e2 # e
               /\ e2.error # "blocked"
               /\ e2.warned = {}
               /\ \A i \in 1..Len(calls) : Len(calls[i].did) >= 3)
              => /\ e2.pc = "p70s"
                 /\ e2.error = "none"
                 /\ e2.fillResults = [made |-> TRUE, filled |-> fields]
                 /\ Len(calls) = Len(fields)
                 /\ \A i \in 1..Len(calls) :
                       /\ calls[i].field = fields[i]
                       /\ calls[i].did = <<"wait", "click", "clear", "type">>
                       /\ calls[i].key \in fd
                       /\ (calls[i].field = "cardholderName"
                              /\ "cardholderName" \notin fd)
                             => calls[i].key = CheckoutKey(fd, "fullName")
                       /\ (calls[i].field \in fd) => calls[i].key = calls[i].field]_vars

-----------------------------------------------------------------------------
(* Properties of the value lookup (SpecFields) *)

\* The key matches the field: it is the name, the id or the purpose of the
\* field, or the lower-cased name (the id when there is no name) includes
\* the lower-cased key.
KeyMatches(field, key) ==
    \/ field.name # <<>> /\ key = field.name
    \/ field.id # <<>> /\ key = field.id
    \/ field.purpose # <<>> /\ key = field.purpose
    \/ includes(toLowerCase(IF field.name # <<>> THEN field.name ELSE field.id),
                toLowerCase(key))

\* C37: getValueForField returns null only when no key of formData matches
\* the field, and otherwise the value of a matching entry, falsy or not; and
\* fillForm returns a FillResult in which a field is skipped exactly when no
\* key matches it, a field with a matching key being filled when fillField
\* succeeds.
C37_SkippedOnlyWithoutMatch ==
    /\ (call.fn = "getValueForField" /\ call.returned) =>
          LET field == call.args[1]
              fd == call.args[2]
              M == { i \in 1..Len(fd) : KeyMatches(field, fd[i].key) }
          IN  /\ (call.result[1] = Null) <=> (M = {})
              /\ M # {} => \E i \in M : call.result[1] = fd[i].value
    /\ FillFormEnded =>
          LET elements == call.args[1]
              fd == call.args[2]
              outcomes == call.args[4]
              r == call.result[1]
              Field(i) == [name |-> elements[i].name, id |-> elements[i].id,
                           purpose |-> <<>>]
              Unmatched == { i \in Eligible(elements) :
                               \A k \in 1..Len(fd) : ~KeyMatches(Field(i), fd[k].key) }
              In(list, i) == \E k \in 1..Len(list) :
                                list[k].field = ElementLabel(elements, i)
          IN  /\ r.threw = "none"
              /\ Len(r.results.skipped) = Cardinality(Unmatched)
              /\ \A i \in Eligible(elements) :
                    /\ i \in Unmatched => In(r.results.skipped, i)
                    /\ (i \notin Unmatched
                          /\ outcomes[FieldIndex(elements, i)] = "ok")
                          => In(r.results.filled, i)

-----------------------------------------------------------------------------
(* Properties of addTask (SpecTasks) *)

\* A call of addTask has just ended.
AddTaskEnds == call'.fn = "addTask" /\ jobs' = jobs + 1

\* C38: addTask throws and leaves the queue as it is when accountId is
\* missing or formData is not an object; otherwise it returns and the queue
\* has exactly one job more, whose data has the accountId and the formData
\* of the call, the given targetUrl, submitSelector, successIndicators and
\* options or else the configured URL, the configured selector, {} and {},
\* and whose priority is the given one or else 1.
C38_AddTaskValidatesAndDefaults ==
    [][AddTaskEnds =>
          LET t == call'.args[1]
              Given(v, d) == IF v = Undefined THEN d ELSE v
          IN  /\ call'.returned
                    <=> (t.accountId \notin {Undefined, ""}
                            /\ t.formData # NoFormData)
              /\ ~call'.returned => queue' = queue
              /\ call'.returned =>
                    \E j \in queue' \ queue :
                       /\ queue' = queue \cup {j}
                       /\ j.data.accountId = t.accountId
                       /\ j.data.formData = t.formData
                       /\ j.data.targetUrl = Given(t.targetUrl, ConfiguredTargetUrl)
                       /\ j.data.submitSelector
                             = Given(t.submitSelector, ConfiguredSubmitSelector)
                       /\ j.data.successIndicators
                             = Given(t.successIndicators, EmptyObject)
                       /\ j.data.options = Given(t.options, EmptyObject)
                       /\ j.priority = IF t.priority = <<>> THEN 1
                                       ELSE t.priority[1]]_vars

\* C39: every call of addTask that returns has added a new job to the queue,
\* whose id is the one returned and is the id of no job the queue held
\* before, also when two calls for the same accountId are made within one
\* millisecond.
C39_AcceptedTaskIsNewJob ==
    [][(AddTaskEnds /\ call'.returned) =>
          /\ \A j \in queue : j.id # call'.result[1]
          /\ \E j \in queue' \ queue : j.id = call'.result[1]
          /\ Cardinality(queue') = Cardinality(queue) + 1
          /\ \A j, k \in queue' : j.id = k.id => j = k]_vars

-----------------------------------------------------------------------------
(* Termination of processJob (FairSpec) *)

====
